---- MODULE Spec2Model ----
(***************************************************************************)
(* A model of libchess: bitboard primitives, attack tables, the run-time   *)
(* sliding attack resolver, the Position state with make/unmake and the    *)
(* fast probes, Zobrist hashing and the legal move generator.              *)
(*                                                                         *)
(* Representation choices                                                  *)
(*  - a Bitboard (u64) is the set of its 1 bits, a subset of 0..63; shifts  *)
(*    drop the bits that leave the 64-bit word;                            *)
(*  - a Piece / Color (u8 flag byte) is the integer the source uses;       *)
(*  - a CastleRights byte is the set of its flag values;                   *)
(*  - a Zobrist value is a one-element set naming the table slot, a key is *)
(*    the set of values XOR-ed an odd number of times (XOR is symmetric    *)
(*    difference, the value 0 is the empty set): the random values are     *)
(*    taken to be independent;                                             *)
(*  - Option<T> is a sequence of length 0 (None) or 1 (Some).              *)
(***************************************************************************)
EXTENDS Integers, Sequences, FiniteSets, TLC

VARIABLES st, history, probe, query

vars == <<st, history, probe, query>>

(***************************************************************************)
(* Bounds of the model.                                                    *)
(***************************************************************************)
MaxPly == 2

MaxBlockers == 2
MaxRepPly == 9
MaxPerftDepth == 4
(* the most pieces a side is given beside its king *)
MaxMaterial == 3
(* the largest ply counter a game is played to *)
MaxPlyCounter == 10

----------------------------------------------------------------------------
(* pos.rs / color.rs / piece.rs constants *)

Squares == 0 .. 63

NONE == 0
PAWN == 1
KNIGHT == 2
BISHOP == 4
ROOK == 8
QUEEN == 16
KING == 32

WHITE == 64
BLACK == 128

NO_CASTLING == {}
WK_CASTLE == 2
WQ_CASTLE == 4
BK_CASTLE == 8
BQ_CASTLE == 16

FILE_A == 0
FILE_H == 7
RANK_1 == 0
RANK_2 == 1
RANK_7 == 6
RANK_8 == 7

WK_ROOK_SQ == 7
WQ_ROOK_SQ == 0
BK_ROOK_SQ == 63
BQ_ROOK_SQ == 56

Some(x) == <<x>>
None == <<>>

(* `a & b != 0` for a single flag b of a u8 *)
has_flag(a, b) == (a \div b) % 2 = 1

(* color::of: piece & (WHITE | BLACK) *)
color_of(piece) == piece - (piece % 64)

(* color::other: color ^ (WHITE | BLACK) *)
other(color) ==
  (IF has_flag(color, WHITE) THEN 0 ELSE WHITE)
  + (IF has_flag(color, BLACK) THEN 0 ELSE BLACK)

(* u8::trailing_zeros *)
trailing_zeros(x) ==
  IF x = 0 THEN 8
  ELSE CHOOSE i \in 0 .. 7 :
         /\ has_flag(x, 2 ^ i)
         /\ \A j \in 0 .. (i - 1) : ~has_flag(x, 2 ^ j)

p_to_idx(piece) ==
  trailing_zeros(piece) + (IF color_of(piece) = BLACK THEN 6 ELSE 0)

c_to_idx(color) == IF color = BLACK THEN 1 ELSE 0

file_of(square) == square % 8
rank_of(square) == square \div 8
make_sq(file, rank) == rank * 8 + file

behind(square, color) == IF color = WHITE THEN square - 8 ELSE square + 8
ahead(square, color) == IF color = WHITE THEN square + 8 ELSE square - 8

----------------------------------------------------------------------------
(* piece/bb.rs: bit-set primitives *)

EMPTY == {}

shl(bb, n) == {s + n : s \in bb} \cap Squares
shr(bb, n) == {s - n : s \in bb} \cap Squares

FILE_A_MASK == {0, 8, 16, 24, 32, 40, 48, 56}
FILE_H_MASK == {7, 15, 23, 31, 39, 47, 55, 63}
FILE_AB_MASK == FILE_A_MASK \cup shl(FILE_A_MASK, 1)
FILE_GH_MASK == FILE_H_MASK \cup shr(FILE_H_MASK, 1)
RANK_1_MASK == {0, 1, 2, 3, 4, 5, 6, 7}
RANK_8_MASK == {56, 57, 58, 59, 60, 61, 62, 63}
MAIN_DIAG_MASK == {0, 9, 18, 27, 36, 45, 54, 63}
MAIN_ANTI_DIAG_MASK == {7, 14, 21, 28, 35, 42, 49, 56}

file_mask(square) == shl(FILE_A_MASK, square % 8)
rank_mask(square) == shl(RANK_1_MASK, (square \div 8) * 8)

diag_mask(square) ==
  LET diag == (square % 8) - (square \div 8)
  IN  IF diag >= 0 THEN shr(MAIN_DIAG_MASK, diag * 8)
      ELSE shl(MAIN_DIAG_MASK, (0 - diag) * 8)

anti_diag_mask(square) ==
  LET diag == 7 - (square % 8) - (square \div 8)
  IN  IF diag >= 0 THEN shr(MAIN_ANTI_DIAG_MASK, diag * 8)
      ELSE shl(MAIN_ANTI_DIAG_MASK, (0 - diag) * 8)

north(bb) == shl(bb, 8)
south(bb) == shr(bb, 8)
east(bb) == shl(bb, 1)
west(bb) == shr(bb, 1)
no_ea(bb) == shl(bb, 9)
no_we(bb) == shl(bb, 7)
so_ea(bb) == shr(bb, 7)
so_we(bb) == shr(bb, 9)

(* index of the least significant 1 bit; 64 for an empty board *)
serialize_once(bb) ==
  IF bb = {} THEN 64 ELSE CHOOSE s \in bb : \A t \in bb : s <= t

set_bit(bb, idx) == bb \cup {idx}
pop_bit(bb, idx) == bb \ {idx}

(* init_attack_masks_non_sliding_piece, one table per piece *)
init_pawn_attacks(sq) ==
  <<no_we({sq} \ FILE_A_MASK) \cup no_ea({sq} \ FILE_H_MASK),
    so_we({sq} \ FILE_A_MASK) \cup so_ea({sq} \ FILE_H_MASK)>>

(* the knight table with the two-file steps masked by one file only *)
init_knight_attacks_one_file(sq) ==
  north(no_we({sq} \ FILE_A_MASK))
    \cup north(no_ea({sq} \ FILE_H_MASK))
    \cup south(so_we({sq} \ FILE_A_MASK))
    \cup south(so_ea({sq} \ FILE_H_MASK))
    \cup west(no_we({sq} \ FILE_A_MASK))
    \cup west(so_we({sq} \ FILE_A_MASK))
    \cup east(no_ea({sq} \ FILE_H_MASK))
    \cup east(so_ea({sq} \ FILE_H_MASK))

init_knight_attacks(sq) ==
  north(no_we({sq} \ FILE_A_MASK))
    \cup north(no_ea({sq} \ FILE_H_MASK))
    \cup south(so_we({sq} \ FILE_A_MASK))
    \cup south(so_ea({sq} \ FILE_H_MASK))
    \cup west(no_we({sq} \ FILE_AB_MASK))
    \cup west(so_we({sq} \ FILE_AB_MASK))
    \cup east(no_ea({sq} \ FILE_GH_MASK))
    \cup east(so_ea({sq} \ FILE_GH_MASK))

init_king_attacks(sq) ==
  north({sq})
    \cup south({sq})
    \cup west({sq} \ FILE_A_MASK)
    \cup east({sq} \ FILE_H_MASK)
    \cup no_we({sq} \ FILE_A_MASK)
    \cup no_ea({sq} \ FILE_H_MASK)
    \cup so_we({sq} \ FILE_A_MASK)
    \cup so_ea({sq} \ FILE_H_MASK)

(* init_attack_masks_sliding_piece_rays *)
init_rook_rays(sq) == pop_bit(file_mask(sq) \cup rank_mask(sq), sq)
init_bishop_rays(sq) == pop_bit(diag_mask(sq) \cup anti_diag_mask(sq), sq)

(* the AttackMasks value built by init() *)
masks ==
  [pawn_attacks |-> [c \in 0 .. 1 |-> [sq \in Squares |-> init_pawn_attacks(sq)[c + 1]]],
   knight_attacks |-> [sq \in Squares |-> init_knight_attacks(sq)],
   king_attacks |-> [sq \in Squares |-> init_king_attacks(sq)],
   rook_rays |-> [sq \in Squares |-> init_rook_rays(sq)],
   bishop_rays |-> [sq \in Squares |-> init_bishop_rays(sq)]]

pawn_attacks(color, square) ==
  masks.pawn_attacks[IF color = WHITE THEN 0 ELSE 1][square]
knight_attacks(square) == masks.knight_attacks[square]
king_attacks(square) == masks.king_attacks[square]
rook_rays(square) == masks.rook_rays[square]
bishop_rays(square) == masks.bishop_rays[square]

----------------------------------------------------------------------------
(* the run-time attack resolver *)

RECURSIVE walk_to_blocker(_, _, _, _)
walk_to_blocker(start, blockers, edges, dir) ==
  IF start \in (blockers \cup edges) THEN {start}
  ELSE {start} \cup walk_to_blocker(start + dir, blockers, edges, dir)

(* rook_attacks_rt walking on the whole occupancy, the origin included *)
rook_attacks_rt_raw_occupancy(square, occupied) ==
  pop_bit(walk_to_blocker(square, occupied, RANK_8_MASK, 8)
            \cup walk_to_blocker(square, occupied, RANK_1_MASK, -8)
            \cup walk_to_blocker(square, occupied, FILE_H_MASK, 1)
            \cup walk_to_blocker(square, occupied, FILE_A_MASK, -1),
          square)

rook_attacks_rt(square, occupied) ==
  LET blockers == occupied \cap rook_rays(square)
  IN  pop_bit(walk_to_blocker(square, blockers, RANK_8_MASK, 8)
                \cup walk_to_blocker(square, blockers, RANK_1_MASK, -8)
                \cup walk_to_blocker(square, blockers, FILE_H_MASK, 1)
                \cup walk_to_blocker(square, blockers, FILE_A_MASK, -1),
              square)

bishop_attacks_rt(square, occupied) ==
  LET blockers == occupied \cap bishop_rays(square)
  IN  pop_bit(walk_to_blocker(square, blockers, FILE_A_MASK \cup RANK_8_MASK, 7)
                \cup walk_to_blocker(square, blockers, FILE_H_MASK \cup RANK_1_MASK, -7)
                \cup walk_to_blocker(square, blockers, FILE_H_MASK \cup RANK_8_MASK, 9)
                \cup walk_to_blocker(square, blockers, FILE_A_MASK \cup RANK_1_MASK, -9),
              square)

----------------------------------------------------------------------------
(* zobrist.rs: the ZobristValues table and the from-scratch hash *)

xor(a, b) == (a \ b) \cup (b \ a)

zb ==
  [black_to_move |-> {780},
   wk_castle |-> {776},
   wq_castle |-> {777},
   bk_castle |-> {778},
   bq_castle |-> {779},
   ep_files |-> [f \in 0 .. 7 |-> {768 + f}],
   piece_sq |-> [i \in 0 .. 11 |-> [sq \in Squares |-> {i * 64 + sq}]]]

----------------------------------------------------------------------------
(* pos.rs: StateInfo, accessors and the three mutation primitives *)

blank ==
  [ep_square |-> None,
   rule50 |-> 0,
   castling |-> NO_CASTLING,
   move_played |-> None,
   board |-> [sq \in Squares |-> NONE],
   piece_bb |-> [i \in 0 .. 11 |-> EMPTY],
   color_bb |-> [i \in 0 .. 1 |-> EMPTY],
   side |-> NONE,
   ply |-> 0,
   key |-> {}]

piece_bb(s, piece) == s.piece_bb[p_to_idx(piece)]
color_bb(s, color) == s.color_bb[c_to_idx(color)]
occupied_bb(s) == color_bb(s, WHITE) \cup color_bb(s, BLACK)
empty_bb(s) == Squares \ occupied_bb(s)
piece_on(s, square) == s.board[square]
is_occupied(s, square) == s.board[square] # NONE

(* the XOR of f[x] over x in S: the values that occur an odd number of times *)
xor_all(f, S) ==
  {e \in UNION {f[x] : x \in S} : Cardinality({x \in S : e \in f[x]}) % 2 = 1}

(* zobrist::hash over the board array, side, ep square and castling rights *)
hash(s) ==
  LET occ == {sq \in Squares : is_occupied(s, sq)}
      pieces == xor_all([sq \in Squares |-> zb.piece_sq[p_to_idx(piece_on(s, sq))][sq]], occ)
      k1 == IF s.side = BLACK THEN xor(pieces, zb.black_to_move) ELSE pieces
      k2 == IF s.ep_square # None
            THEN xor(k1, zb.ep_files[file_of(s.ep_square[1])]) ELSE k1
      k3 == IF WK_CASTLE \in s.castling THEN xor(k2, zb.wk_castle) ELSE k2
      k4 == IF WQ_CASTLE \in s.castling THEN xor(k3, zb.wq_castle) ELSE k3
      k5 == IF BK_CASTLE \in s.castling THEN xor(k4, zb.bk_castle) ELSE k4
  IN  IF BQ_CASTLE \in s.castling THEN xor(k5, zb.bq_castle) ELSE k5

remove_piece(s, square) ==
  LET p == s.board[square]
  IN  [s EXCEPT !.key = xor(@, zb.piece_sq[p_to_idx(p)][square]),
                !.piece_bb[p_to_idx(p)] = pop_bit(@, square),
                !.color_bb[c_to_idx(color_of(p))] = pop_bit(@, square),
                !.board[square] = NONE]

(* put_piece overwriting an occupied square without removing the occupant *)
put_piece_no_clear(s, piece, square) ==
  [s EXCEPT !.board[square] = piece,
            !.piece_bb[p_to_idx(piece)] = set_bit(@, square),
            !.color_bb[c_to_idx(color_of(piece))] = set_bit(@, square),
            !.key = xor(@, zb.piece_sq[p_to_idx(piece)][square])]

put_piece(s, piece, square) ==
  LET s1 == IF is_occupied(s, square) THEN remove_piece(s, square) ELSE s
  IN  [s1 EXCEPT !.board[square] = piece,
                 !.piece_bb[p_to_idx(piece)] = set_bit(@, square),
                 !.color_bb[c_to_idx(color_of(piece))] = set_bit(@, square),
                 !.key = xor(@, zb.piece_sq[p_to_idx(piece)][square])]

(* move_piece that puts the piece on `to` and leaves it on `from` too *)
move_piece_keep_origin(s, from, to) == put_piece(s, s.board[from], to)
move_piece(s, from, to) == remove_piece(put_piece(s, s.board[from], to), from)

(* fast_make returns the position and the captured piece *)
fast_make(s, mov, ep) ==
  LET cap == s.board[IF ep THEN behind(mov.to_sq, s.side) ELSE mov.to_sq]
      s1 == move_piece(s, mov.from_sq, mov.to_sq)
  IN  [st |-> IF ep THEN remove_piece(s1, behind(mov.to_sq, s.side)) ELSE s1,
       cap |-> cap]

(* fast_unmake putting the captured piece back on the target square even  *)
(* after an en-passant capture                                             *)
fast_unmake_cap_on_target(s, mov, cap, ep) ==
  LET s1 == move_piece(s, mov.to_sq, mov.from_sq)
  IN  IF cap # NONE THEN put_piece(s1, cap, mov.to_sq) ELSE s1

fast_unmake(s, mov, cap, ep) ==
  LET s1 == move_piece(s, mov.to_sq, mov.from_sq)
  IN  IF cap # NONE
      THEN IF ep THEN put_piece(s1, cap, behind(mov.to_sq, s.side))
           ELSE put_piece(s1, cap, mov.to_sq)
      ELSE s1

----------------------------------------------------------------------------
(* piece/bb.rs: attack queries on a position *)

is_attacked(square, s, color) ==
  \/ pawn_attacks(other(color), square) \cap piece_bb(s, PAWN + color) # EMPTY
  \/ knight_attacks(square) \cap piece_bb(s, KNIGHT + color) # EMPTY
  \/ king_attacks(square) \cap piece_bb(s, KING + color) # EMPTY
  \/ rook_attacks_rt(square, occupied_bb(s))
       \cap (piece_bb(s, ROOK + color) \cup piece_bb(s, QUEEN + color)) # EMPTY
  \/ bishop_attacks_rt(square, occupied_bb(s))
       \cap (piece_bb(s, BISHOP + color) \cup piece_bb(s, QUEEN + color)) # EMPTY

is_check(s) ==
  is_attacked(serialize_once(piece_bb(s, KING + s.side)), s, other(s.side))

(* might_be_pinned that flags no square *)
might_be_pinned_never(s, square) == FALSE

might_be_pinned(s, square) ==
  LET king_pos == serialize_once(piece_bb(s, KING + s.side))
      rq == piece_bb(s, ROOK + other(s.side)) \cup piece_bb(s, QUEEN + other(s.side))
      bq == piece_bb(s, BISHOP + other(s.side)) \cup piece_bb(s, QUEEN + other(s.side))
  IN  \/ (file_mask(square) = file_mask(king_pos) /\ file_mask(square) \cap rq # {})
      \/ (rank_mask(square) = rank_mask(king_pos) /\ rank_mask(square) \cap rq # {})
      \/ (diag_mask(square) = diag_mask(king_pos) /\ diag_mask(square) \cap bq # {})
      \/ (anti_diag_mask(square) = anti_diag_mask(king_pos)
            /\ anti_diag_mask(square) \cap bq # {})

----------------------------------------------------------------------------
(* moves.rs: Move, MoveType and the pseudo-legal generators.  A Vec<Move>  *)
(* is modelled by the set of its elements: no generator emits the same     *)
(* (from, to, type) twice.                                                 *)

Normal == [tag |-> "Normal", promo |-> NONE, cap |-> NONE]
PawnTwoUp == [tag |-> "PawnTwoUp", promo |-> NONE, cap |-> NONE]
Capture(c) == [tag |-> "Capture", promo |-> NONE, cap |-> c]
Promotion(p) == [tag |-> "Promotion", promo |-> p, cap |-> NONE]
(* PromoCapture with its two pieces in the other order *)
PromoCapture_swapped(p, c) == [tag |-> "PromoCapture", promo |-> c, cap |-> p]
PromoCapture(p, c) == [tag |-> "PromoCapture", promo |-> p, cap |-> c]
EnPassant == [tag |-> "EnPassant", promo |-> NONE, cap |-> NONE]
KingSideCastle == [tag |-> "KingSideCastle", promo |-> NONE, cap |-> NONE]
QueenSideCastle == [tag |-> "QueenSideCastle", promo |-> NONE, cap |-> NONE]

Move_new(from, to, type) ==
  [from_sq |-> from, to_sq |-> to, type_of |-> type, is_reversible |-> TRUE]

is_reversible(mov) == mov.is_reversible

PromoKinds == {QUEEN, ROOK, BISHOP, KNIGHT}

(* pawn_moves with a double push that jumps over an occupied square *)
pawn_moves_from_jump(s, from) ==
  LET side == s.side
      ep == IF s.ep_square # None THEN {s.ep_square[1]} ELSE {}
      attacks == pawn_attacks(side, from)
      captures == attacks \cap color_bb(s, other(side))
      ep_captures == attacks \cap ep
      up1 == ahead(from, side)
      start_rank == IF side = WHITE THEN RANK_2 ELSE RANK_7
      promo_rank == IF side = WHITE THEN RANK_8 ELSE RANK_1
      up2 == ahead(up1, side)
  IN  UNION {IF rank_of(to) = promo_rank
             THEN {Move_new(from, to, PromoCapture(k + side, piece_on(s, to))) : k \in PromoKinds}
             ELSE {Move_new(from, to, Capture(piece_on(s, to)))} : to \in captures}
      \cup {Move_new(from, to, EnPassant) : to \in ep_captures}
      \cup (IF ~is_occupied(s, up1)
            THEN (IF rank_of(up1) = promo_rank
                  THEN {Move_new(from, up1, Promotion(k + side)) : k \in PromoKinds}
                  ELSE {Move_new(from, up1, Normal)})
            ELSE {})
      \cup (IF rank_of(from) = start_rank /\ ~is_occupied(s, up2)
            THEN {Move_new(from, up2, PawnTwoUp)} ELSE {})

(* the moves pawn_moves pushes for the pawn on `from` *)
pawn_moves_from(s, from) ==
  LET side == s.side
      ep == IF s.ep_square # None THEN {s.ep_square[1]} ELSE {}
      attacks == pawn_attacks(side, from)
      captures == attacks \cap color_bb(s, other(side))
      ep_captures == attacks \cap ep
      up1 == ahead(from, side)
      start_rank == IF side = WHITE THEN RANK_2 ELSE RANK_7
      promo_rank == IF side = WHITE THEN RANK_8 ELSE RANK_1
      up2 == ahead(up1, side)
  IN  UNION {IF rank_of(to) = promo_rank
             THEN {Move_new(from, to, PromoCapture(k + side, piece_on(s, to))) : k \in PromoKinds}
             ELSE {Move_new(from, to, Capture(piece_on(s, to)))} : to \in captures}
      \cup {Move_new(from, to, EnPassant) : to \in ep_captures}
      \cup (IF ~is_occupied(s, up1)
            THEN (IF rank_of(up1) = promo_rank
                  THEN {Move_new(from, up1, Promotion(k + side)) : k \in PromoKinds}
                  ELSE {Move_new(from, up1, Normal)})
                 \cup (IF rank_of(from) = start_rank /\ ~is_occupied(s, up2)
                       THEN {Move_new(from, up2, PawnTwoUp)} ELSE {})
            ELSE {})

pawn_moves(s) ==
  UNION {pawn_moves_from(s, from) : from \in piece_bb(s, PAWN + s.side)}

(* targets taking every occupied square it attacks for a capture *)
targets_any_occupied(s, from, attacks) ==
  {Move_new(from, to, Capture(piece_on(s, to))) : to \in attacks \cap occupied_bb(s)}
  \cup {Move_new(from, to, Normal) : to \in attacks \cap empty_bb(s)}

(* captures and quiet moves of one piece with attack set `attacks` *)
targets(s, from, attacks) ==
  {Move_new(from, to, Capture(piece_on(s, to))) : to \in attacks \cap color_bb(s, other(s.side))}
  \cup {Move_new(from, to, Normal) : to \in attacks \cap empty_bb(s)}

knight_moves(s) ==
  UNION {targets(s, from, knight_attacks(from)) : from \in piece_bb(s, KNIGHT + s.side)}

rook_or_queen_moves(s) ==
  UNION {targets(s, from, rook_attacks_rt(from, occupied_bb(s))) :
           from \in piece_bb(s, ROOK + s.side) \cup piece_bb(s, QUEEN + s.side)}

bishop_or_queen_moves(s) ==
  UNION {targets(s, from, bishop_attacks_rt(from, occupied_bb(s))) :
           from \in piece_bb(s, BISHOP + s.side) \cup piece_bb(s, QUEEN + s.side)}

(* king_moves testing only the king's square and the destination for attack *)
king_moves_skip_passing(s) ==
  LET side == s.side
      from == serialize_once(piece_bb(s, KING + side))
      kcastle == IF side = WHITE THEN WK_CASTLE ELSE BK_CASTLE
      qcastle == IF side = WHITE THEN WQ_CASTLE ELSE BQ_CASTLE
  IN  targets(s, from, king_attacks(from))
      \cup (IF /\ kcastle \in s.castling
               /\ ~is_occupied(s, from + 1)
               /\ ~is_occupied(s, from + 2)
               /\ ~is_check(s)
               /\ ~is_attacked(from + 2, s, other(side))
            THEN {Move_new(from, from + 2, KingSideCastle)} ELSE {})
      \cup (IF /\ qcastle \in s.castling
               /\ ~is_occupied(s, from - 1)
               /\ ~is_occupied(s, from - 2)
               /\ ~is_occupied(s, from - 3)
               /\ ~is_check(s)
               /\ ~is_attacked(from - 2, s, other(side))
            THEN {Move_new(from, from - 2, QueenSideCastle)} ELSE {})

king_moves(s) ==
  LET side == s.side
      from == serialize_once(piece_bb(s, KING + side))
      kcastle == IF side = WHITE THEN WK_CASTLE ELSE BK_CASTLE
      qcastle == IF side = WHITE THEN WQ_CASTLE ELSE BQ_CASTLE
  IN  targets(s, from, king_attacks(from))
      \cup (IF /\ kcastle \in s.castling
               /\ ~is_occupied(s, from + 1)
               /\ ~is_occupied(s, from + 2)
               /\ ~is_check(s)
               /\ ~is_attacked(from + 1, s, other(side))
               /\ ~is_attacked(from + 2, s, other(side))
            THEN {Move_new(from, from + 2, KingSideCastle)} ELSE {})
      \cup (IF /\ qcastle \in s.castling
               /\ ~is_occupied(s, from - 1)
               /\ ~is_occupied(s, from - 2)
               /\ ~is_occupied(s, from - 3)
               /\ ~is_check(s)
               /\ ~is_attacked(from - 1, s, other(side))
               /\ ~is_attacked(from - 2, s, other(side))
            THEN {Move_new(from, from - 2, QueenSideCastle)} ELSE {})

pseudo_legal(s) ==
  pawn_moves(s) \cup knight_moves(s) \cup rook_or_queen_moves(s)
    \cup bishop_or_queen_moves(s) \cup king_moves(s)

(* gen_legal::is_legal: the fast_make / is_check / fast_unmake probe *)
is_legal(m, s) ==
  ~is_check(fast_make(s, m, m.type_of = EnPassant).st)

gen_legal(s) ==
  IF is_check(s)
  THEN {m \in pseudo_legal(s) : is_legal(m, s)}
  ELSE {m \in pseudo_legal(s) :
          IF has_flag(piece_on(s, m.from_sq), KING)
          THEN ~is_attacked(m.to_sq, s, other(s.side))
          ELSE IF might_be_pinned(s, m.from_sq) THEN is_legal(m, s)
          ELSE TRUE}

----------------------------------------------------------------------------
(* pos.rs: castling-right loss, make_move, unmake_move, is_3_rep *)

(* lose_kcastle_rights toggling the flag (`^=`) instead of clearing it *)
lose_kcastle_rights_toggle(rights, color) ==
  LET right == IF color = WHITE THEN {WK_CASTLE} ELSE {BK_CASTLE}
  IN  [rights |-> xor(rights, right),
       zb_value |-> IF color = WHITE THEN zb.wk_castle ELSE zb.bk_castle]

lose_kcastle_rights(rights, color) ==
  LET right == IF color = WHITE THEN {WK_CASTLE}
               ELSE IF color = BLACK THEN {BK_CASTLE} ELSE {}
      zb_value == IF color = WHITE
                  THEN (IF WK_CASTLE \in rights THEN zb.wk_castle ELSE {})
                  ELSE IF color = BLACK
                  THEN (IF BK_CASTLE \in rights THEN zb.bk_castle ELSE {})
                  ELSE {}
  IN  [rights |-> rights \ right, zb_value |-> zb_value]

(* lose_qcastle_rights returning the Zobrist value of a right already lost *)
lose_qcastle_rights_rehash(rights, color) ==
  [rights |-> rights \ (IF color = WHITE THEN {WQ_CASTLE} ELSE {BQ_CASTLE}),
   zb_value |-> IF color = WHITE THEN zb.wq_castle ELSE zb.bq_castle]

lose_qcastle_rights(rights, color) ==
  LET right == IF color = WHITE THEN {WQ_CASTLE}
               ELSE IF color = BLACK THEN {BQ_CASTLE} ELSE {}
      zb_value == IF color = WHITE
                  THEN (IF WQ_CASTLE \in rights THEN zb.wq_castle ELSE {})
                  ELSE IF color = BLACK
                  THEN (IF BQ_CASTLE \in rights THEN zb.bq_castle ELSE {})
                  ELSE {}
  IN  [rights |-> rights \ right, zb_value |-> zb_value]

(* `self.st.key ^= lose_*castle_rights(&mut self.st.castling, color, zb)` *)
lose_k(s, color) ==
  LET r == lose_kcastle_rights(s.castling, color)
  IN  [s EXCEPT !.castling = r.rights, !.key = xor(@, r.zb_value)]

lose_q(s, color) ==
  LET r == lose_qcastle_rights(s.castling, color)
  IN  [s EXCEPT !.castling = r.rights, !.key = xor(@, r.zb_value)]

(* `self.st.rule50 += 1` on a u8 *)
rule50_inc(r) == (r + 1) % 256

(* `self.st.move_played.unwrap().is_reversible = false`: Option<Move> is   *)
(* Copy, so unwrap() returns a temporary copy of the stored move and the   *)
(* assignment writes that temporary; the stored state is left as it is.    *)
mark_irreversible(s) == s

(* make_head leaving a set en-passant target in place *)
make_head_keep_ep(s, mov) ==
  [s EXCEPT !.rule50 = rule50_inc(@),
            !.move_played = Some(mov),
            !.ply = @ + 1]

(* make_move, lines 574-583: bookkeeping and the en-passant reset *)
make_head(s, mov) ==
  LET s1 == [s EXCEPT !.rule50 = rule50_inc(@),
                      !.move_played = Some(mov),
                      !.ply = @ + 1]
  IN  IF s1.ep_square # None
      THEN [s1 EXCEPT !.ep_square = None,
                      !.key = xor(@, zb.ep_files[file_of(s1.ep_square[1])])]
      ELSE s1

(* lines 585-590: a pawn move resets rule50 *)
make_pawn_reset(s, mov) ==
  IF has_flag(s.board[mov.from_sq], PAWN)
  THEN mark_irreversible([s EXCEPT !.rule50 = 0])
  ELSE s

(* make_move with the mover's rights lost by a king move only *)
make_mover_rights_king_only(s, mov) ==
  IF has_flag(s.board[mov.from_sq], KING)
  THEN lose_q(lose_k(s, s.side), s.side)
  ELSE s

(* lines 592-601: rights lost by the moving king or rook *)
make_mover_rights(s, mov) ==
  LET moving_piece == s.board[mov.from_sq]
  IN  IF has_flag(moving_piece, KING)
      THEN lose_q(lose_k(s, s.side), s.side)
      ELSE IF has_flag(moving_piece, ROOK)
      THEN (IF file_of(mov.from_sq) = FILE_A THEN lose_q(s, s.side)
            ELSE IF file_of(mov.from_sq) = FILE_H THEN lose_k(s, s.side)
            ELSE s)
      ELSE s

(* make_move without the rights lost by a captured rook *)
make_capture_rights_none(s, mov) == s

(* lines 603-622: rights lost by a captured rook *)
make_capture_rights(s, mov) ==
  LET rook_captured ==
        /\ mov.type_of.tag \in {"Capture", "PromoCapture"}
        /\ has_flag(mov.type_of.cap, ROOK)
  IN  IF ~rook_captured THEN s
      ELSE IF s.side = WHITE
      THEN (IF mov.to_sq = BQ_ROOK_SQ THEN lose_q(s, BLACK)
            ELSE IF mov.to_sq = BK_ROOK_SQ THEN lose_k(s, BLACK)
            ELSE s)
      ELSE IF s.side = BLACK
      THEN (IF mov.to_sq = WQ_ROOK_SQ THEN lose_q(s, WHITE)
            ELSE IF mov.to_sq = WK_ROOK_SQ THEN lose_k(s, WHITE)
            ELSE s)
      ELSE s

(* the dispatch with the queenside rook put two squares from its corner,  *)
(* as the kingside rook is                                                 *)
make_dispatch_rook_mirror(s, mov) ==
  LET tag == mov.type_of.tag
  IN  CASE tag = "Normal" -> move_piece(s, mov.from_sq, mov.to_sq)
        [] tag = "Capture" ->
             mark_irreversible(
               [move_piece(s, mov.from_sq, mov.to_sq) EXCEPT !.rule50 = 0])
        [] tag = "PawnTwoUp" ->
             LET s1 == move_piece(s, mov.from_sq, mov.to_sq)
                 sq_behind == behind(mov.to_sq, s1.side)
             IN  [s1 EXCEPT !.ep_square = Some(sq_behind),
                            !.key = xor(@, zb.ep_files[file_of(sq_behind)])]
        [] tag \in {"Promotion", "PromoCapture"} ->
             mark_irreversible(
               remove_piece(put_piece(s, mov.type_of.promo, mov.to_sq), mov.from_sq))
        [] tag = "EnPassant" ->
             LET s1 == move_piece(s, mov.from_sq, mov.to_sq)
             IN  mark_irreversible(remove_piece(s1, behind(mov.to_sq, s1.side)))
        [] tag = "KingSideCastle" ->
             LET s1 == move_piece(s, mov.from_sq, mov.to_sq)
                 rook_from == IF s1.side = WHITE THEN WK_ROOK_SQ ELSE BK_ROOK_SQ
             IN  mark_irreversible(move_piece(s1, rook_from, rook_from - 2))
        [] tag = "QueenSideCastle" ->
             LET s1 == move_piece(s, mov.from_sq, mov.to_sq)
                 rook_from == IF s1.side = WHITE THEN WQ_ROOK_SQ ELSE BQ_ROOK_SQ
             IN  mark_irreversible(move_piece(s1, rook_from, rook_from + 2))

(* the dispatch with an en-passant capture that leaves the captured pawn *)
make_dispatch_ep_keep_pawn(s, mov) ==
  LET tag == mov.type_of.tag
  IN  CASE tag \in {"Normal", "EnPassant"} -> move_piece(s, mov.from_sq, mov.to_sq)
        [] tag = "Capture" ->
             mark_irreversible(
               [move_piece(s, mov.from_sq, mov.to_sq) EXCEPT !.rule50 = 0])
        [] tag = "PawnTwoUp" ->
             LET s1 == move_piece(s, mov.from_sq, mov.to_sq)
                 sq_behind == behind(mov.to_sq, s1.side)
             IN  [s1 EXCEPT !.ep_square = Some(sq_behind),
                            !.key = xor(@, zb.ep_files[file_of(sq_behind)])]
        [] tag \in {"Promotion", "PromoCapture"} ->
             mark_irreversible(
               remove_piece(put_piece(s, mov.type_of.promo, mov.to_sq), mov.from_sq))
        [] tag = "KingSideCastle" ->
             LET s1 == move_piece(s, mov.from_sq, mov.to_sq)
                 rook_from == IF s1.side = WHITE THEN WK_ROOK_SQ ELSE BK_ROOK_SQ
             IN  mark_irreversible(move_piece(s1, rook_from, rook_from - 2))
        [] tag = "QueenSideCastle" ->
             LET s1 == move_piece(s, mov.from_sq, mov.to_sq)
                 rook_from == IF s1.side = WHITE THEN WQ_ROOK_SQ ELSE BQ_ROOK_SQ
             IN  mark_irreversible(move_piece(s1, rook_from, rook_from + 3))

(* lines 624-678: the dispatch on the move type *)
make_dispatch(s, mov) ==
  LET tag == mov.type_of.tag
  IN  CASE tag = "Normal" -> move_piece(s, mov.from_sq, mov.to_sq)
        [] tag = "Capture" ->
             mark_irreversible(
               [move_piece(s, mov.from_sq, mov.to_sq) EXCEPT !.rule50 = 0])
        [] tag = "PawnTwoUp" ->
             LET s1 == move_piece(s, mov.from_sq, mov.to_sq)
                 sq_behind == behind(mov.to_sq, s1.side)
             IN  [s1 EXCEPT !.ep_square = Some(sq_behind),
                            !.key = xor(@, zb.ep_files[file_of(sq_behind)])]
        [] tag \in {"Promotion", "PromoCapture"} ->
             mark_irreversible(
               remove_piece(put_piece(s, mov.type_of.promo, mov.to_sq), mov.from_sq))
        [] tag = "EnPassant" ->
             LET s1 == move_piece(s, mov.from_sq, mov.to_sq)
             IN  mark_irreversible(remove_piece(s1, behind(mov.to_sq, s1.side)))
        [] tag = "KingSideCastle" ->
             LET s1 == move_piece(s, mov.from_sq, mov.to_sq)
                 rook_from == IF s1.side = WHITE THEN WK_ROOK_SQ ELSE BK_ROOK_SQ
             IN  mark_irreversible(move_piece(s1, rook_from, rook_from - 2))
        [] tag = "QueenSideCastle" ->
             LET s1 == move_piece(s, mov.from_sq, mov.to_sq)
                 rook_from == IF s1.side = WHITE THEN WQ_ROOK_SQ ELSE BQ_ROOK_SQ
             IN  mark_irreversible(move_piece(s1, rook_from, rook_from + 3))

(* the switch that updates the key and leaves the side *)
make_switch_key_only(s) ==
  [s EXCEPT !.key = xor(@, zb.black_to_move)]

(* lines 680-681: color::switch and the side-to-move value *)
make_switch(s) ==
  [s EXCEPT !.side = other(@), !.key = xor(@, zb.black_to_move)]

(* the StateInfo make_move leaves in self.st *)
make_move_st(s, mov) ==
  make_switch(
    make_dispatch(
      make_capture_rights(
        make_mover_rights(
          make_pawn_reset(
            make_head(s, mov), mov), mov), mov), mov))

(* the snapshot taken after the counters were advanced *)
make_move_push_late(h, s) ==
  Append(h, [s EXCEPT !.rule50 = rule50_inc(@), !.ply = @ + 1])

(* line 574: the snapshot make_move pushes *)
make_move_push(h, s) == Append(h, s)

(* make_move on a Position [st, history] *)
make_move(pos, mov) ==
  [st |-> make_move_st(pos.st, mov),
   history |-> make_move_push(pos.history, pos.st)]

(* unmake_move; the caller guarantees a non-empty history *)
unmake_move(pos) ==
  [st |-> pos.history[Len(pos.history)],
   history |-> SubSeq(pos.history, 1, Len(pos.history) - 1)]

(* make_move as a call that can fail.  `self.st.rule50 += 1` on a u8 that  *)
(* holds 255 panics where overflow checks are compiled in (the default of *)
(* a debug build), after line 574 has pushed the snapshot, and wraps to 0  *)
(* where they are not (the default of a release build).                    *)
try_make_move(pos, mov, overflow_checks) ==
  IF overflow_checks /\ pos.st.rule50 + 1 > 255
  THEN [panicked |-> TRUE,
        st |-> pos.st,
        history |-> make_move_push(pos.history, pos.st)]
  ELSE LET p == make_move(pos, mov)
       IN  [panicked |-> FALSE, st |-> p.st, history |-> p.history]

(* unmake_move written with `if let Some(st) = self.history.pop()` *)
try_unmake_move_if_let(pos, debug_assertions) ==
  IF Len(pos.history) = 0
  THEN [panicked |-> FALSE, st |-> pos.st, history |-> pos.history]
  ELSE LET p == unmake_move(pos)
       IN  [panicked |-> FALSE, st |-> p.st, history |-> p.history]

(* unmake_move as a call that can fail: the debug_assert! of a build with  *)
(* debug assertions, and in every build the unwrap() of history.last()     *)
try_unmake_move(pos, debug_assertions) ==
  LET last == IF Len(pos.history) = 0 THEN None
              ELSE Some(pos.history[Len(pos.history)])
  IN  IF debug_assertions /\ ~(Len(pos.history) # 0)
      THEN [panicked |-> TRUE, st |-> pos.st, history |-> pos.history]
      ELSE IF last = None
      THEN [panicked |-> TRUE, st |-> pos.st, history |-> pos.history]
      ELSE LET p == unmake_move(pos)
           IN  [panicked |-> FALSE, st |-> p.st, history |-> p.history]

(* the loop of is_3_rep answering at the first earlier match *)
RECURSIVE rep_loop_first_match(_, _, _, _)
rep_loop_first_match(h, key, idx, cnt) ==
  IF h[idx + 1].key = key THEN TRUE
  ELSE IF h[idx + 1].move_played # None
          /\ ~is_reversible(h[idx + 1].move_played[1]) THEN FALSE
  ELSE IF idx < 2 THEN FALSE
  ELSE rep_loop_first_match(h, key, idx - 2, cnt)

(* the loop of is_3_rep: history is 0-based in the source *)
RECURSIVE rep_loop(_, _, _, _)
rep_loop(h, key, idx, cnt) ==
  LET hit == h[idx + 1].key = key
      cnt1 == IF hit THEN cnt + 1 ELSE cnt
  IN  IF hit /\ cnt1 = 2 THEN TRUE
      ELSE IF h[idx + 1].move_played # None
              /\ ~is_reversible(h[idx + 1].move_played[1]) THEN FALSE
      ELSE IF idx < 2 THEN FALSE
      ELSE rep_loop(h, key, idx - 2, cnt1)

is_3_rep(pos) ==
  IF pos.st.move_played # None /\ ~is_reversible(pos.st.move_played[1]) THEN FALSE
  ELSE IF Len(pos.history) < 6 THEN FALSE
  ELSE rep_loop(pos.history, pos.st.key, pos.st.ply - 4, 0)

(* is_3_rep as a call that returns or panics: history[idx] with idx past   *)
(* the end of the Vec panics in every build; only the first read can be,   *)
(* as idx only decreases and stops below 2                                 *)
try_is_3_rep(pos) ==
  LET reads == /\ ~(pos.st.move_played # None /\ ~is_reversible(pos.st.move_played[1]))
               /\ Len(pos.history) >= 6
      idx == pos.st.ply - 4
  IN  IF reads /\ idx >= Len(pos.history)
      THEN [panicked |-> TRUE, idx |-> idx, value |-> FALSE]
      ELSE [panicked |-> FALSE, idx |-> IF reads THEN idx ELSE -1, value |-> is_3_rep(pos)]

(* history_i is the history followed by the current state; the Vec is      *)
(* 0-based                                                                 *)
from_ply(pos, ply) ==
  [st |-> Append(pos.history, pos.st)[ply + 1], history |-> <<>>]

(* insufficient_material accepting one bishop beside any number of knights *)
insufficient_material_any_knights(s, side) ==
  LET queens == Cardinality(piece_bb(s, QUEEN + side))
      rooks == Cardinality(piece_bb(s, ROOK + side))
      pawns == Cardinality(piece_bb(s, PAWN + side))
      bishops == Cardinality(piece_bb(s, BISHOP + side))
      knights == Cardinality(piece_bb(s, KNIGHT + side))
  IN  /\ queens = 0
      /\ rooks = 0
      /\ pawns = 0
      /\ ((bishops = 0 /\ knights < 3) \/ bishops = 1)

insufficient_material(s, side) ==
  LET queens == Cardinality(piece_bb(s, QUEEN + side))
      rooks == Cardinality(piece_bb(s, ROOK + side))
      pawns == Cardinality(piece_bb(s, PAWN + side))
      bishops == Cardinality(piece_bb(s, BISHOP + side))
      knights == Cardinality(piece_bb(s, KNIGHT + side))
  IN  /\ queens = 0
      /\ rooks = 0
      /\ pawns = 0
      /\ ((bishops = 0 /\ knights < 3) \/ (bishops = 1 /\ knights = 0))

----------------------------------------------------------------------------
(* pos.rs: from_fen.  A FEN string is given by its fields, each a sequence *)
(* of one-character strings; the placement field is given split at its     *)
(* '/' characters and the half-move field by its number.  Every Position   *)
(* under construction has ply 0: the test on s.ply in the two loops below  *)
(* never ends a loop, it makes TLC evaluate s before it goes on.           *)

to_ascii_lowercase(ch) ==
  CASE ch = "P" -> "p" [] ch = "N" -> "n" [] ch = "B" -> "b"
    [] ch = "R" -> "r" [] ch = "Q" -> "q" [] ch = "K" -> "k"
    [] OTHER -> ch

is_uppercase(ch) == ch \in {"P", "N", "B", "R", "Q", "K"}

is_numeric(ch) == ch \in {"0", "1", "2", "3", "4", "5", "6", "7", "8", "9"}

(* `ch as isize - b'0' as isize` *)
digit_of(ch) ==
  CASE ch = "0" -> 0 [] ch = "1" -> 1 [] ch = "2" -> 2 [] ch = "3" -> 3
    [] ch = "4" -> 4 [] ch = "5" -> 5 [] ch = "6" -> 6 [] ch = "7" -> 7
    [] ch = "8" -> 8 [] ch = "9" -> 9

(* `ch as u8 - b'a'` for the file letters *)
file_letter(ch) ==
  CASE ch = "a" -> 0 [] ch = "b" -> 1 [] ch = "c" -> 2 [] ch = "d" -> 3
    [] ch = "e" -> 4 [] ch = "f" -> 5 [] ch = "g" -> 6 [] ch = "h" -> 7

from_char(ch) ==
  LET lc == to_ascii_lowercase(ch)
      piece == CASE lc = "p" -> PAWN [] lc = "n" -> KNIGHT [] lc = "b" -> BISHOP
                 [] lc = "r" -> ROOK [] lc = "q" -> QUEEN [] lc = "k" -> KING
                 [] OTHER -> NONE
  IN  IF is_uppercase(ch) /\ piece # NONE THEN piece + WHITE ELSE piece + BLACK

str_to_sq(string) == make_sq(file_letter(string[1]), digit_of(string[2]) - 1)

(* the characters of one rank: a digit skips files, a letter places a piece *)
RECURSIVE fen_rank(_, _, _, _, _)
fen_rank(s, chars, i, file, rank) ==
  IF i > Len(chars) \/ s.ply # 0 THEN s
  ELSE IF is_numeric(chars[i])
  THEN fen_rank(s, chars, i + 1, file + digit_of(chars[i]), rank)
  ELSE fen_rank(put_piece(s, from_char(chars[i]), make_sq(file, rank)),
                chars, i + 1, file + 1, rank)

(* a '/' starts the next rank down at file a *)
RECURSIVE fen_placement(_, _, _, _)
fen_placement(s, ranks, r, rank) ==
  IF r > Len(ranks) \/ s.ply # 0 THEN s
  ELSE fen_placement(fen_rank(s, ranks[r], 1, FILE_A, rank), ranks, r + 1, rank - 1)

RECURSIVE fen_castling(_, _, _)
fen_castling(rights, chars, i) ==
  IF i > Len(chars) THEN rights
  ELSE fen_castling(
         CASE chars[i] = "-" -> NO_CASTLING
           [] chars[i] = "K" -> rights \cup {WK_CASTLE}
           [] chars[i] = "Q" -> rights \cup {WQ_CASTLE}
           [] chars[i] = "k" -> rights \cup {BK_CASTLE}
           [] chars[i] = "q" -> rights \cup {BQ_CASTLE},
         chars, i + 1)

from_fen(fen) ==
  LET s1 == fen_placement(blank, fen.placement, 1, RANK_8)
      s2 == [s1 EXCEPT !.side = IF fen.side = "w" THEN WHITE ELSE BLACK,
                       !.castling = fen_castling(@, fen.castling, 1),
                       !.ep_square = IF fen.ep[1] = "-" THEN None
                                     ELSE Some(str_to_sq(fen.ep)),
                       !.rule50 = fen.rule50]
  IN  [s2 EXCEPT !.key = hash(s2)]

START_FEN ==
  [placement |-> <<<<"r", "n", "b", "q", "k", "b", "n", "r">>,
                   <<"p", "p", "p", "p", "p", "p", "p", "p">>,
                   <<"8">>, <<"8">>, <<"8">>, <<"8">>,
                   <<"P", "P", "P", "P", "P", "P", "P", "P">>,
                   <<"R", "N", "B", "Q", "K", "B", "N", "R">>>>,
   side |-> "w", castling |-> <<"K", "Q", "k", "q">>, ep |-> <<"-">>, rule50 |-> 0]

(* r3k2r/8/8/8/8/8/8/R3K2R w KQkq - 0 1: both kings and all four rooks at home, every castling right held *)
CASTLE_FEN ==
  [placement |-> <<<<"r", "3", "k", "2", "r">>,
                   <<"8">>,
                   <<"8">>,
                   <<"8">>,
                   <<"8">>,
                   <<"8">>,
                   <<"8">>,
                   <<"R", "3", "K", "2", "R">>>>,
   side |-> "w", castling |-> <<"K", "Q", "k", "q">>, ep |-> <<"-">>, rule50 |-> 0]

(* r3k3/1P6/8/8/2pP4/8/8/4K3 b q d3 0 1: an en-passant capture for Black, then a promotion or a promotion capture on a8 for White *)
EP_PROMO_FEN ==
  [placement |-> <<<<"r", "3", "k", "3">>,
                   <<"1", "P", "6">>,
                   <<"8">>,
                   <<"8">>,
                   <<"2", "p", "P", "4">>,
                   <<"8">>,
                   <<"8">>,
                   <<"4", "K", "3">>>>,
   side |-> "b", castling |-> <<"q">>, ep |-> <<"d", "3">>, rule50 |-> 0]

(* 4k3/8/8/2Pp4/8/8/1p6/R3K3 w Q d6 0 1: the same with the colours changed: an en-passant capture for White, then a promotion or a promotion capture on a1 for Black *)
EP_PROMO_WHITE_FEN ==
  [placement |-> <<<<"4", "k", "3">>,
                   <<"8">>,
                   <<"8">>,
                   <<"2", "P", "p", "4">>,
                   <<"8">>,
                   <<"8">>,
                   <<"1", "p", "6">>,
                   <<"R", "3", "K", "3">>>>,
   side |-> "w", castling |-> <<"Q">>, ep |-> <<"d", "6">>, rule50 |-> 0]

(* 4k3/4r3/8/8/8/8/4N3/4K3 w - - 0 1: a knight pinned on the e-file *)
PIN_FEN ==
  [placement |-> <<<<"4", "k", "3">>,
                   <<"4", "r", "3">>,
                   <<"8">>,
                   <<"8">>,
                   <<"8">>,
                   <<"8">>,
                   <<"4", "N", "3">>,
                   <<"4", "K", "3">>>>,
   side |-> "w", castling |-> <<"-">>, ep |-> <<"-">>, rule50 |-> 0]

(* 8/8/8/8/k2Pp2R/8/8/4K3 b - d3 0 1: an en-passant capture that would open the fourth rank onto the own king *)
EP_RANK_FEN ==
  [placement |-> <<<<"8">>,
                   <<"8">>,
                   <<"8">>,
                   <<"8">>,
                   <<"k", "2", "P", "p", "2", "R">>,
                   <<"8">>,
                   <<"8">>,
                   <<"4", "K", "3">>>>,
   side |-> "b", castling |-> <<"-">>, ep |-> <<"d", "3">>, rule50 |-> 0]

(* 4k2r/8/7r/8/8/R7/8/R3K3 w Qk - 0 1: each side has its king and one rook *)
(* at home, holds the right of that wing, and has a second rook further up *)
(* the same file                                                           *)
ROOK_FILE_FEN ==
  [placement |-> <<<<"4", "k", "2", "r">>,
                   <<"8">>,
                   <<"7", "r">>,
                   <<"8">>,
                   <<"8">>,
                   <<"R", "7">>,
                   <<"8">>,
                   <<"R", "3", "K", "3">>>>,
   side |-> "w", castling |-> <<"Q", "k">>, ep |-> <<"-">>, rule50 |-> 0]

(* b3k3/8/8/3pP3/8/8/8/7K w - d6 0 1: from_fen loads it, no game reaches it; *)
(* the pawn the en-passant capture removes is the only piece between the   *)
(* bishop on a8 and the king on h1                                         *)
EP_DIAG_FEN ==
  [placement |-> <<<<"b", "3", "k", "3">>,
                   <<"8">>,
                   <<"8">>,
                   <<"3", "p", "P", "3">>,
                   <<"8">>,
                   <<"8">>,
                   <<"8">>,
                   <<"7", "K">>>>,
   side |-> "w", castling |-> <<"-">>, ep |-> <<"d", "6">>, rule50 |-> 0]

(* k7/1p1p1p1p/1P1P1P1P/8/8/pPp1p1p1/P1P1P1P1/K7 w - - 0 1: the pawns are  *)
(* locked but for the one on b3, and each king is held on its back rank    *)
SHUFFLE_FEN ==
  [placement |-> <<<<"k", "7">>,
                   <<"1", "p", "1", "p", "1", "p", "1", "p">>,
                   <<"1", "P", "1", "P", "1", "P", "1", "P">>,
                   <<"8">>,
                   <<"8">>,
                   <<"p", "P", "p", "1", "p", "1", "p", "1">>,
                   <<"P", "1", "P", "1", "P", "1", "P", "1">>,
                   <<"K", "7">>>>,
   side |-> "w", castling |-> <<"-">>, ep |-> <<"-">>, rule50 |-> 0]

(* the positions games are played from: legal chess positions *)
GameFens ==
  {START_FEN, CASTLE_FEN, EP_PROMO_FEN, EP_PROMO_WHITE_FEN, PIN_FEN, EP_RANK_FEN,
   ROOK_FILE_FEN}

(* the positions from_fen is given: any board with one king per side *)
LoadedFens == GameFens \cup {EP_DIAG_FEN}

----------------------------------------------------------------------------
(* moves.rs: move text.  A string is the sequence of its characters.       *)

(* to_uci_fmt without the promotion letter *)
to_uci_fmt_no_promo(mov) ==
  LET to_algn(square) ==
        << (<<"a", "b", "c", "d", "e", "f", "g", "h">>)[file_of(square) + 1],
           (<<"1", "2", "3", "4", "5", "6", "7", "8">>)[rank_of(square) + 1] >>
  IN  to_algn(mov.from_sq) \o to_algn(mov.to_sq)

to_uci_fmt(mov) ==
  LET (* pos::to_algn *)
      to_algn(square) ==
        << (<<"a", "b", "c", "d", "e", "f", "g", "h">>)[file_of(square) + 1],
           (<<"1", "2", "3", "4", "5", "6", "7", "8">>)[rank_of(square) + 1] >>
      (* piece::as_char *)
      as_char(piece) ==
        LET ch == IF has_flag(piece, PAWN) THEN "p"
                  ELSE IF has_flag(piece, KNIGHT) THEN "n"
                  ELSE IF has_flag(piece, BISHOP) THEN "b"
                  ELSE IF has_flag(piece, ROOK) THEN "r"
                  ELSE IF has_flag(piece, QUEEN) THEN "q"
                  ELSE IF has_flag(piece, KING) THEN "k"
                  ELSE " "
        IN  IF has_flag(piece, WHITE)
            THEN (CASE ch = "p" -> "P" [] ch = "n" -> "N" [] ch = "b" -> "B"
                    [] ch = "r" -> "R" [] ch = "q" -> "Q" [] ch = "k" -> "K"
                    [] OTHER -> ch)
            ELSE ch
      (* (promoted & !color::WHITE) | color::BLACK *)
      as_black(piece) ==
        (IF has_flag(piece, WHITE) THEN piece - WHITE ELSE piece)
        + (IF has_flag(piece, BLACK) THEN 0 ELSE BLACK)
      uci == to_algn(mov.from_sq) \o to_algn(mov.to_sq)
  IN  IF mov.type_of.tag \in {"Promotion", "PromoCapture"}
      THEN Append(uci, as_char(as_black(mov.type_of.promo)))
      ELSE uci

(* from_str_move; a failed assert! is the value [panicked |-> message] *)
from_str_move(uci, s) ==
  LET is_alphabetic(ch) ==
        ch \in {"a", "b", "c", "d", "e", "f", "g", "h", "k", "n", "p", "q", "r",
                "B", "K", "N", "P", "Q", "R"}
      abs_diff(a, b) == IF a < b THEN b - a ELSE a - b
      from == str_to_sq(SubSeq(uci, 1, 2))
      to == str_to_sq(SubSeq(uci, 3, 4))
      promo == uci[Len(uci)]
      mov == Move_new(from, to,
                      IF is_occupied(s, to) THEN Capture(piece_on(s, to)) ELSE Normal)
      from_char_lower == from_char(to_ascii_lowercase(promo))
      promo_piece ==
        (IF has_flag(from_char_lower, BLACK) THEN from_char_lower - BLACK
         ELSE from_char_lower) + color_of(piece_on(s, from))
      with(type) == [mov EXCEPT !.type_of = type]
  IN  IF Len(uci) < 4 THEN [panicked |-> "uci string is too short"]
      ELSE IF Len(uci) > 6 THEN [panicked |-> "uci string is too long"]
      ELSE IF from >= 64 \/ to >= 64 THEN [panicked |-> "converts to an invalid index"]
      ELSE IF is_alphabetic(promo)
      THEN (IF mov.type_of.tag = "Capture"
            THEN with(PromoCapture(promo_piece, mov.type_of.cap))
            ELSE with(Promotion(promo_piece)))
      ELSE IF has_flag(piece_on(s, from), PAWN) /\ abs_diff(from, to) = 16
      THEN with(PawnTwoUp)
      ELSE IF /\ has_flag(piece_on(s, from), PAWN)
              /\ abs_diff(from, to) \in {9, 7}
              /\ mov.type_of.tag # "Capture"
      THEN with(EnPassant)
      ELSE IF has_flag(piece_on(s, from), KING) /\ from - to = -2
      THEN with(KingSideCastle)
      ELSE IF has_flag(piece_on(s, from), KING) /\ from - to = 2
      THEN with(QueenSideCastle)
      ELSE mov

----------------------------------------------------------------------------
(* The state machine of a Position: the public make_move / unmake_move and *)
(* the fast probes gen_legal runs on the position it is given.             *)

(* the moves gen_legal hands to is_legal *)
(* serialize_once of an empty king bitboard is 64, and the attack tables   *)
(* have 64 entries: generating moves for a side without a king panics     *)
panics(s) == serialize_once(piece_bb(s, KING + s.side)) \notin Squares

probed(s) ==
  IF is_check(s) THEN pseudo_legal(s)
  ELSE {m \in pseudo_legal(s) :
          ~has_flag(piece_on(s, m.from_sq), KING) /\ might_be_pinned(s, m.from_sq)}

Init ==
  /\ \E fen \in GameFens : st = from_fen(fen)
  /\ history = <<>>
  /\ probe = None
  /\ query = None

MakeMove ==
  /\ probe = None
  /\ Len(history) < MaxPly
  /\ ~panics(st)
  /\ \E m \in gen_legal(st) :
       LET p == make_move([st |-> st, history |-> history], m)
       IN  st' = p.st /\ history' = p.history
  /\ UNCHANGED <<probe, query>>

UnmakeMove ==
  /\ probe = None
  /\ Len(history) # 0
  /\ LET p == unmake_move([st |-> st, history |-> history])
     IN  st' = p.st /\ history' = p.history
  /\ UNCHANGED <<probe, query>>

FastMake ==
  /\ probe = None
  /\ ~panics(st)
  /\ \E m \in probed(st) :
       LET r == fast_make(st, m, m.type_of = EnPassant)
       IN  st' = r.st /\ probe' = Some([mov |-> m, cap |-> r.cap])
  /\ UNCHANGED <<history, query>>

FastUnmake ==
  /\ probe # None
  /\ st' = fast_unmake(st, probe[1].mov, probe[1].cap, probe[1].mov.type_of = EnPassant)
  /\ probe' = None
  /\ UNCHANGED <<history, query>>

Next == MakeMove \/ UnmakeMove \/ FastMake \/ FastUnmake

Spec == Init /\ [][Next]_vars

(* the occupancies with at most n occupied squares *)
RECURSIVE Occupancies(_)
Occupancies(n) ==
  IF n = 0 THEN {EMPTY}
  ELSE LET smaller == Occupancies(n - 1)
       IN  smaller \cup {set_bit(o, a) : o \in smaller, a \in Squares}

(* the attack resolver called on an origin square and an occupancy *)
InitAttack ==
  /\ st = blank
  /\ history = <<>>
  /\ probe = None
  /\ \E square \in Squares : \E occupied \in Occupancies(MaxBlockers) :
       query = Some([square |-> square, occupied |-> occupied,
                     piece |-> NONE, attacks |-> EMPTY])

RookAttacksRt ==
  /\ query[1].piece = NONE
  /\ query' = Some([query[1] EXCEPT
                      !.piece = ROOK,
                      !.attacks = rook_attacks_rt(query[1].square, query[1].occupied)])
  /\ UNCHANGED <<st, history, probe>>

BishopAttacksRt ==
  /\ query[1].piece = NONE
  /\ query' = Some([query[1] EXCEPT
                      !.piece = BISHOP,
                      !.attacks = bishop_attacks_rt(query[1].square, query[1].occupied)])
  /\ UNCHANGED <<st, history, probe>>

NextAttack == RookAttacksRt \/ BishopAttacksRt

SpecAttack == InitAttack /\ [][NextAttack]_vars

(* the attack tables of init() looked up for a square *)
InitTables ==
  /\ st = blank
  /\ history = <<>>
  /\ probe = None
  /\ \E square \in Squares :
       query = Some([square |-> square, piece |-> NONE, color |-> NONE, attacks |-> EMPTY])

KnightAttacks ==
  /\ query[1].piece = NONE
  /\ query' = Some([query[1] EXCEPT !.piece = KNIGHT,
                                    !.attacks = knight_attacks(query[1].square)])
  /\ UNCHANGED <<st, history, probe>>

KingAttacks ==
  /\ query[1].piece = NONE
  /\ query' = Some([query[1] EXCEPT !.piece = KING,
                                    !.attacks = king_attacks(query[1].square)])
  /\ UNCHANGED <<st, history, probe>>

PawnAttacks ==
  /\ query[1].piece = NONE
  /\ \E color \in {WHITE, BLACK} :
       query' = Some([query[1] EXCEPT !.piece = PAWN, !.color = color,
                                      !.attacks = pawn_attacks(color, query[1].square)])
  /\ UNCHANGED <<st, history, probe>>

SpecTables == InitTables /\ [][KnightAttacks \/ KingAttacks \/ PawnAttacks]_vars

(* a long game of few moves, asked after every move whether the position *)
(* is a threefold repetition                                               *)
InitRep ==
  /\ st = from_fen(SHUFFLE_FEN)
  /\ history = <<>>
  /\ probe = None
  /\ query = None

PlayMove ==
  /\ Len(history) < MaxRepPly
  /\ st.ply < MaxPlyCounter
  /\ \E m \in gen_legal(st) :
       LET p == make_move([st |-> st, history |-> history], m)
       IN  st' = p.st /\ history' = p.history
  /\ query' = None
  /\ UNCHANGED probe

Is3Rep ==
  /\ query = None
  /\ query' = Some(is_3_rep([st |-> st, history |-> history]))
  /\ UNCHANGED <<st, history, probe>>

NextRep == PlayMove \/ Is3Rep

SpecRep == InitRep /\ [][NextRep]_vars

(* the same game with a caller that also takes moves back, restarts from   *)
(* a state of the history with from_ply, and asks is_3_rep                 *)
FromPly ==
  /\ \E ply \in 0 .. Len(history) :
       LET p == from_ply([st |-> st, history |-> history], ply)
       IN  st' = p.st /\ history' = p.history
  /\ query' = None
  /\ UNCHANGED probe

Is3RepCall ==
  /\ query = None
  /\ query' = Some(try_is_3_rep([st |-> st, history |-> history]))
  /\ UNCHANGED <<st, history, probe>>

SpecPly ==
  InitRep /\ [][PlayMove \/ (query = None /\ UnmakeMove) \/ FromPly \/ Is3RepCall]_vars

(* perft.rs: perft(pos, depth, ..) as its call stack.  A frame holds the    *)
(* moves of gen_legal the loop has not taken yet, the frame's `nodes` and  *)
(* its `depth`; the loop takes the moves in one fixed order.               *)
next_move(todo) == CHOOSE m \in todo : TRUE

frame(s, depth) == [todo |-> gen_legal(s), nodes |-> 0, depth |-> depth]

top(q) == q.frames[Len(q.frames)]

InitPerft ==
  /\ st = from_fen(START_FEN)
  /\ history = <<>>
  /\ probe = None
  /\ \E depth \in 1 .. MaxPerftDepth :
       query = Some([depth |-> depth, frames |-> <<frame(st, depth)>>, nodes |-> None])

(* make_move and the recursive call with depth - 1 > 0 *)
PerftCall ==
  /\ query[1].frames # <<>>
  /\ top(query[1]).todo # {}
  /\ top(query[1]).depth > 1
  /\ LET q == query[1]
         n == Len(q.frames)
         mov == next_move(top(q).todo)
         p == make_move([st |-> st, history |-> history], mov)
     IN  /\ st' = p.st
         /\ history' = p.history
         /\ query' = Some([q EXCEPT
                             !.frames = Append([@ EXCEPT ![n].todo = @ \ {mov}],
                                               frame(p.st, top(q).depth - 1))])
  /\ UNCHANGED probe

(* make_move, the recursive call with depth 0 returning 1, nodes += 1 and *)
(* unmake_move                                                             *)
PerftLeaf ==
  /\ query[1].frames # <<>>
  /\ top(query[1]).todo # {}
  /\ top(query[1]).depth = 1
  /\ LET q == query[1]
         n == Len(q.frames)
         mov == next_move(top(q).todo)
         p == unmake_move(make_move([st |-> st, history |-> history], mov))
     IN  /\ st' = p.st
         /\ history' = p.history
         /\ query' = Some([q EXCEPT !.frames[n].todo = @ \ {mov},
                                    !.frames[n].nodes = @ + 1])
  /\ UNCHANGED probe

(* the loop is over in a recursive call: return `nodes`, then the caller's *)
(* nodes += new_nodes and unmake_move                                      *)
PerftReturn ==
  /\ Len(query[1].frames) > 1
  /\ top(query[1]).todo = {}
  /\ LET q == query[1]
         n == Len(q.frames)
         p == unmake_move([st |-> st, history |-> history])
     IN  /\ st' = p.st
         /\ history' = p.history
         /\ query' = Some([q EXCEPT
                             !.frames = [SubSeq(@, 1, n - 1) EXCEPT
                                           ![n - 1].nodes = @ + top(q).nodes]])
  /\ UNCHANGED probe

(* the loop is over in the root call: perft returns `nodes` *)
PerftDone ==
  /\ Len(query[1].frames) = 1
  /\ top(query[1]).todo = {}
  /\ query' = Some([query[1] EXCEPT !.frames = <<>>, !.nodes = Some(top(query[1]).nodes)])
  /\ UNCHANGED <<st, history, probe>>

NextPerft == PerftCall \/ PerftLeaf \/ PerftReturn \/ PerftDone

SpecPerft == InitPerft /\ [][NextPerft]_vars

(* the same operations on any position from_fen can load *)
InitFen ==
  /\ \E fen \in LoadedFens : st = from_fen(fen)
  /\ history = <<>>
  /\ probe = None
  /\ query = None

SpecFen == InitFen /\ [][Next]_vars

(* a caller that writes a generated move as text and reads the text back *)
FromStrMove ==
  /\ probe = None
  /\ query = None
  /\ ~panics(st)
  /\ \E m \in gen_legal(st) :
       query' = Some([mov |-> m,
                      uci |-> to_uci_fmt(m),
                      parsed |-> from_str_move(to_uci_fmt(m), st)])
  /\ UNCHANGED <<st, history, probe>>

SpecText ==
  Init /\ [][(query = None /\ MakeMove) \/ (query = None /\ UnmakeMove)
              \/ FromStrMove]_vars

(* make_move and unmake_move as calls that return or panic, in a build    *)
(* with or without debug assertions and overflow checks.  query holds the  *)
(* last call and how it ended; nothing runs after a panic.  The half-move  *)
(* field of a FEN is parsed as a u8: the positions are loaded with the     *)
(* counter near 0, near RULE_50_PLIES, around 128 and near 255.            *)
InitCalls ==
  /\ \E fen \in {SHUFFLE_FEN, EP_PROMO_FEN},
        rule50 \in {0, 1, 98, 99, 100, 127, 128, 253, 254, 255} :
       st = from_fen([fen EXCEPT !.rule50 = rule50])
  /\ history = <<>>
  /\ probe = None
  /\ query = None

MakeMoveCall ==
  /\ IF query = None THEN TRUE ELSE ~query[1].panicked
  /\ Len(history) < MaxPly
  /\ ~panics(st)
  /\ \E m \in gen_legal(st), overflow_checks \in BOOLEAN :
       LET r == try_make_move([st |-> st, history |-> history], m, overflow_checks)
       IN  /\ st' = r.st
           /\ history' = r.history
           /\ query' = Some([call |-> "make_move", panicked |-> r.panicked])
  /\ UNCHANGED probe

UnmakeMoveCall ==
  /\ IF query = None THEN TRUE ELSE ~query[1].panicked
  /\ \E debug_assertions \in BOOLEAN :
       LET r == try_unmake_move([st |-> st, history |-> history], debug_assertions)
       IN  /\ st' = r.st
           /\ history' = r.history
           /\ query' = Some([call |-> "unmake_move", panicked |-> r.panicked])
  /\ UNCHANGED probe

SpecCalls == InitCalls /\ [][MakeMoveCall \/ UnmakeMoveCall]_vars

(* the probe of is_legal run on any pseudo-legal move of any loaded        *)
(* position; query keeps the StateInfo the probe started from, and the     *)
(* game goes on only from positions that were not probed                   *)
ProbeMake ==
  /\ probe = None
  /\ ~panics(st)
  /\ \E m \in pseudo_legal(st) :
       LET r == fast_make(st, m, m.type_of = EnPassant)
       IN  st' = r.st /\ probe' = Some([mov |-> m, cap |-> r.cap])
  /\ query' = Some(st)
  /\ UNCHANGED history

SpecProbe ==
  InitFen /\ [][(query = None /\ MakeMove) \/ (query = None /\ UnmakeMove)
                 \/ ProbeMake \/ FastUnmake]_vars

(* insufficient_material asked of positions from_fen loads: the two kings  *)
(* on e1 and e8, White's other pieces from a2 on and Black's from a7 on.   *)
(* A side's pieces are given by their letters, pawns first.                *)
Materials ==
  {m \in UNION {[1 .. k -> 1 .. 5] : k \in 0 .. MaxMaterial} :
     \A i \in 1 .. Len(m) - 1 : m[i] <= m[i + 1]}

MaterialFen(w, b) ==
  LET rank(m, letters) ==
        [i \in 1 .. Len(m) |-> letters[m[i]]]
          \o <<(<<"1", "2", "3", "4", "5", "6", "7", "8">>)[8 - Len(m)]>>
  IN  [placement |-> <<<<"4", "k", "3">>, rank(b, <<"p", "n", "b", "r", "q">>),
                       <<"8">>, <<"8">>, <<"8">>, <<"8">>,
                       rank(w, <<"P", "N", "B", "R", "Q">>), <<"4", "K", "3">>>>,
       side |-> "w", castling |-> <<"-">>, ep |-> <<"-">>, rule50 |-> 0]

InitMaterial ==
  /\ \E w \in Materials, b \in Materials : st = from_fen(MaterialFen(w, b))
  /\ history = <<>>
  /\ probe = None
  /\ query = None

InsufficientMaterial ==
  /\ \E side \in {WHITE, BLACK} :
       query' = Some([side |-> side, insufficient |-> insufficient_material(st, side)])
  /\ UNCHANGED <<st, history, probe>>

SpecMaterial == InitMaterial /\ [][InsufficientMaterial]_vars

----------------------------------------------------------------------------
(* Reference notions the properties are stated with: chess geometry on     *)
(* files and ranks, independent of the bitboard code above.                *)

Pieces ==
  <<PAWN + WHITE, KNIGHT + WHITE, BISHOP + WHITE, ROOK + WHITE, QUEEN + WHITE, KING + WHITE,
    PAWN + BLACK, KNIGHT + BLACK, BISHOP + BLACK, ROOK + BLACK, QUEEN + BLACK, KING + BLACK>>

KindOf(p) == p % 64

Abs(x) == IF x < 0 THEN 0 - x ELSE x

OnBoard(f, r) == f \in 0 .. 7 /\ r \in 0 .. 7

(* the squares a ray from sq in direction (df, dr) reaches on occupancy occ *)
RefRay(sq, occ, df, dr) ==
  LET at(k) == ((sq \div 8) + k * dr) * 8 + (sq % 8) + k * df
      reached == {k \in 1 .. 7 :
                    /\ OnBoard((sq % 8) + k * df, (sq \div 8) + k * dr)
                    /\ \A j \in 1 .. (k - 1) : at(j) \notin occ}
  IN  {at(k) : k \in reached}

RefRookAttacks(sq, occ) ==
  RefRay(sq, occ, 0, 1) \cup RefRay(sq, occ, 0, -1)
    \cup RefRay(sq, occ, 1, 0) \cup RefRay(sq, occ, -1, 0)

RefBishopAttacks(sq, occ) ==
  RefRay(sq, occ, 1, 1) \cup RefRay(sq, occ, 1, -1)
    \cup RefRay(sq, occ, -1, 1) \cup RefRay(sq, occ, -1, -1)

(* the piece on square t of the board array attacks square sq *)
RefAttacks(board, t, sq) ==
  LET p == board[t]
      k == KindOf(p)
      df == (sq % 8) - (t % 8)
      dr == (sq \div 8) - (t \div 8)
      occ == {u \in Squares : board[u] # NONE}
  IN  CASE k = PAWN -> Abs(df) = 1 /\ dr = (IF color_of(p) = WHITE THEN 1 ELSE -1)
        [] k = KNIGHT -> {Abs(df), Abs(dr)} = {1, 2}
        [] k = KING -> t # sq /\ Abs(df) <= 1 /\ Abs(dr) <= 1
        [] k = ROOK -> sq \in RefRookAttacks(t, occ)
        [] k = BISHOP -> sq \in RefBishopAttacks(t, occ)
        [] k = QUEEN -> sq \in RefRookAttacks(t, occ) \cup RefBishopAttacks(t, occ)
        [] OTHER -> FALSE

RefAttacked(board, sq, color) ==
  \E t \in Squares : color_of(board[t]) = color /\ RefAttacks(board, t, sq)

(* a step of the behaviour that is a make_move *)
IsMake == Len(history') = Len(history) + 1

(* a move that cannot be taken back: a pawn move, a capture, a promotion, *)
(* an en-passant capture or a castle, played in state s                    *)
Irreversible(s, mov) ==
  \/ KindOf(s.board[mov.from_sq]) = PAWN
  \/ mov.type_of.tag # "Normal"

(* the states of the game in order, the current one last *)
Game == Append(history, st)

(* no move between state j and the current state is irreversible *)
NotSeparated(j) ==
  \A i \in (j + 1) .. Len(Game) : ~Irreversible(Game[i - 1], Game[i].move_played[1])

(* the earlier states the current position repeats *)
EarlierOccurrences ==
  {j \in 1 .. Len(history) :
     /\ history[j].key = st.key
     /\ history[j].side = st.side
     /\ NotSeparated(j)}

(* the reference node counts of the starting position, depths 1 to 6 *)
PerftReference == <<20, 400, 8902, 197281, 4865609, 119060324>>

(* the state before the last make_move and the move it applied *)
Prev == history[Len(history)]
Played == st.move_played[1]
Applied == probe = None /\ Len(history) > 0

----------------------------------------------------------------------------
GenLegalIsProbeFilter ==
  probe = None => gen_legal(st) = {m \in pseudo_legal(st) : is_legal(m, st)}

(* C3 -- hash consistency: after any sequence of make_move (and            *)
(* unmake_move) calls on a position built by from_fen, the stored key is   *)
(* the key zobrist::hash computes from scratch for the current state.      *)
HashConsistency == probe = None => st.key = hash(st)

(* a promotion capture of the rook on a8 that also took a castling right *)
HashConsistencyWitness ==
  /\ Applied
  /\ Played.type_of.tag = "PromoCapture"
  /\ st.castling # Prev.castling
  /\ st.key = hash(st)

(* C4 -- representation agreement: in every state, the probes of gen_legal *)
(* included, board[s] = p iff s is in p's bitboard, s is in a colour's     *)
(* bitboard iff board[s] is a piece of that colour, the twelve piece       *)
(* bitboards are pairwise disjoint and the two colour bitboards disjoint.  *)
RepresentationAgreement ==
  /\ \A s \in Squares : \A i \in 1 .. 12 :
       (s \in st.piece_bb[i - 1]) <=> (st.board[s] = Pieces[i])
  /\ \A s \in Squares :
       /\ (s \in st.color_bb[0]) <=> (st.board[s] # NONE /\ color_of(st.board[s]) = WHITE)
       /\ (s \in st.color_bb[1]) <=> (st.board[s] # NONE /\ color_of(st.board[s]) = BLACK)
  /\ \A i, j \in 0 .. 11 : i # j => st.piece_bb[i] \cap st.piece_bb[j] = {}
  /\ st.color_bb[0] \cap st.color_bb[1] = {}

(* inside a probe of an en-passant capture: the victim is off the board *)
RepresentationAgreementWitness ==
  /\ probe # None
  /\ probe[1].mov.type_of.tag = "EnPassant"
  /\ probe[1].cap = PAWN + WHITE

(* C5 -- apply/undo round trip: unmake_move after make_move(m), m from     *)
(* gen_legal, gives back the StateInfo and the history stack as they were  *)
(* before make_move.                                                       *)
MakeUnmakeRoundTrip ==
  [][IsMake =>
       unmake_move([st |-> st', history |-> history'])
         = [st |-> st, history |-> history]]_vars

(* a castle was applied on top of an earlier move, and can be undone *)
MakeUnmakeRoundTripWitness ==
  /\ Applied
  /\ Len(history) = 2
  /\ Played.type_of.tag \in {"KingSideCastle", "QueenSideCastle"}

(* C6 -- sliding attack resolver: for every origin square and occupancy,   *)
(* rook_attacks_rt (bishop_attacks_rt) returns the squares a ray cast along *)
(* the four orthogonal (diagonal) directions reaches, each ray stopping at *)
(* and including the first occupied square or the board edge; the result   *)
(* never contains the origin.                                              *)
SlidingAttacksAreRayCasts ==
  query[1].piece # NONE =>
    LET q == query[1]
    IN  /\ q.piece = ROOK => q.attacks = RefRookAttacks(q.square, q.occupied)
        /\ q.piece = BISHOP => q.attacks = RefBishopAttacks(q.square, q.occupied)
        /\ q.square \notin q.attacks

(* a rook on an occupied d4 with a blocker on d6: the d-file ray stops on   *)
(* d6, the other rays run to the edge                                      *)
SlidingAttacksAreRayCastsWitness ==
  /\ query[1].piece = ROOK
  /\ query[1].square = 27
  /\ query[1].occupied = {27, 43}
  /\ query[1].attacks = {3, 11, 19, 35, 43, 24, 25, 26, 28, 29, 30, 31}

(* C7 -- castle legality: a castle is in gen_legal's output only if the    *)
(* side to move holds the right, the two (three) squares between king and  *)
(* rook are empty, and the king's square, the square it passes and its     *)
(* destination are not attacked by the opponent.                           *)
CastleLegality ==
  probe = None =>
    \A m \in gen_legal(st) :
      LET side == st.side
          k == m.from_sq
          corner == IF side = WHITE THEN 0 ELSE 56
      IN  /\ m.type_of = KingSideCastle =>
               /\ (IF side = WHITE THEN WK_CASTLE ELSE BK_CASTLE) \in st.castling
               /\ st.board[k] = KING + side
               /\ \A t \in (k + 1) .. (corner + 6) : st.board[t] = NONE
               /\ \A t \in {k, k + 1, k + 2} : ~RefAttacked(st.board, t, other(side))
          /\ m.type_of = QueenSideCastle =>
               /\ (IF side = WHITE THEN WQ_CASTLE ELSE BQ_CASTLE) \in st.castling
               /\ st.board[k] = KING + side
               /\ \A t \in (corner + 1) .. (k - 1) : st.board[t] = NONE
               /\ \A t \in {k, k - 1, k - 2} : ~RefAttacked(st.board, t, other(side))

(* after a rook move gen_legal offers the opponent a castle on one wing,    *)
(* while the other wing's castle is absent although its right is held      *)
CastleLegalityWitness ==
  /\ Applied
  /\ {BK_CASTLE, BQ_CASTLE} \subseteq st.castling
  /\ \E m \in gen_legal(st) : m.type_of = KingSideCastle
  /\ \A m \in gen_legal(st) : m.type_of # QueenSideCastle

(* C8 -- castling rights monotonicity: the rights after make_move are a    *)
(* subset of the rights before it; make_move never sets a right.           *)
CastlingMonotone == [][IsMake => st'.castling \subseteq st.castling]_vars

(* the last make_move took at least one right away *)
CastlingMonotoneWitness ==
  /\ Applied
  /\ st.castling # Prev.castling
  /\ st.castling \subseteq Prev.castling
  /\ Played.type_of.tag = "Capture"

(* C9 -- threefold repetition: in a game played from from_fen with         *)
(* make_move, is_3_rep returns true iff the current key is the key of at   *)
(* least two earlier states of the history that have the same side to move *)
(* and are not separated from the current state by an irreversible move.   *)
ThreefoldRepetition ==
  query # None => (query[1] <=> Cardinality(EarlierOccurrences) >= 2)

(* is_3_rep answered true for a position that follows a pawn move *)
ThreefoldRepetitionWitness ==
  /\ query = Some(TRUE)
  /\ Cardinality(EarlierOccurrences) = 2
  /\ \E j \in 1 .. Len(history) : Irreversible(history[j], Game[j + 1].move_played[1])

(* C10 -- reversibility flag: after make_move(m) the stored move's         *)
(* is_reversible() is false when m is a pawn move, a capture, a promotion, *)
(* an en-passant capture or a castle, and true otherwise.                  *)
ReversibilityFlag ==
  Applied => (is_reversible(Played) <=> ~Irreversible(Prev, Played))

----------------------------------------------------------------------------
(* C11 -- insufficient material: insufficient_material(side) is true when  *)
(* the side has only its king, its king and one bishop or one knight, or   *)
(* its king and two knights and no bishop; it is false when the side has   *)
(* a pawn, a rook or a queen, or a bishop together with a knight.          *)
Count(s, kind, side) ==
  Cardinality({sq \in Squares : s.board[sq] = kind + side})

InsufficientMaterialCases ==
  query # None =>
    LET side == query[1].side
        p == Count(st, PAWN, side)
        n == Count(st, KNIGHT, side)
        b == Count(st, BISHOP, side)
        r == Count(st, ROOK, side)
        q == Count(st, QUEEN, side)
    IN  /\ (p + r + q = 0 /\ (b + n <= 1 \/ (n = 2 /\ b = 0)))
             => query[1].insufficient
        /\ (p > 0 \/ r > 0 \/ q > 0 \/ (b > 0 /\ n > 0))
             => ~query[1].insufficient

InsufficientMaterialCasesWitness ==
  /\ query # None
  /\ query[1].insufficient
  /\ Count(st, KNIGHT, query[1].side) = 2
  /\ Count(st, ROOK, other(query[1].side)) = 1

----------------------------------------------------------------------------
(* C12 -- move text round trip: for every move m that gen_legal returns    *)
(* for a reachable position, from_str_move(to_uci_fmt(m), position) is m:  *)
(* the same squares and the same move type with its captured and promoted  *)
(* pieces.                                                                 *)
MoveTextRoundTrip ==
  query # None => query[1].parsed = query[1].mov

MoveTextRoundTripWitness ==
  /\ query # None
  /\ query[1].mov.type_of.tag = "PromoCapture"
  /\ Len(query[1].uci) = 5
  /\ query[1].parsed = query[1].mov
  /\ Len(history) > 0

----------------------------------------------------------------------------
(* C13 -- unmake_move on an empty history: the call fails; it never        *)
(* returns normally, and it leaves the current state and the history as    *)
(* they were.                                                              *)
UnmakeOnEmptyHistoryFails ==
  [][(history = <<>> /\ query' # None /\ query'[1].call = "unmake_move")
       => (query'[1].panicked /\ st' = st /\ history' = history)]_vars

UnmakeOnEmptyHistoryFailsWitness ==
  /\ query # None
  /\ query[1].call = "unmake_move"
  /\ query[1].panicked
  /\ history = <<>>
  /\ st.ply = 0

----------------------------------------------------------------------------
(* C14 -- fast probe round trip: for every pseudo-legal move of a          *)
(* position, fast_make followed by fast_unmake with the captured piece it  *)
(* returned restores the board array, every piece and colour bitboard and  *)
(* the key to their values before fast_make.                               *)
FastProbeRoundTrip ==
  [][(probe # None /\ probe' = None)
       => /\ st'.board = query[1].board
          /\ st'.piece_bb = query[1].piece_bb
          /\ st'.color_bb = query[1].color_bb
          /\ st'.key = query[1].key]_vars

(* an en-passant probe in flight: the pawn behind the target is gone and   *)
(* will be put back                                                        *)
FastProbeRoundTripWitness ==
  /\ probe # None
  /\ probe[1].mov.type_of = EnPassant
  /\ probe[1].cap # NONE
  /\ st.board # query[1].board
  /\ fast_unmake(st, probe[1].mov, probe[1].cap, TRUE).board = query[1].board

----------------------------------------------------------------------------
(* C15 -- fast_make makes no incremental update: it changes the board      *)
(* array and the piece and colour bitboards only, and leaves the key, the  *)
(* side to move, the castling rights, the en-passant target, rule50, ply   *)
(* and the history as they were.                                           *)
FastMakeFrame ==
  [][(probe = None /\ probe' # None)
       => /\ st'.key = st.key
          /\ st'.side = st.side
          /\ st'.castling = st.castling
          /\ st'.ep_square = st.ep_square
          /\ st'.rule50 = st.rule50
          /\ st'.ply = st.ply
          /\ history' = history]_vars

----------------------------------------------------------------------------
(* C16 -- make_move bookkeeping: a make_move pushes exactly one history    *)
(* entry, equal to the whole StateInfo before the move, increases ply by   *)
(* 1, sets move_played to the move applied and gives the move to the other *)
(* colour.                                                                 *)
MakeMoveBookkeeping ==
  [][IsMake =>
       /\ history' = Append(history, st)
       /\ st'.ply = st.ply + 1
       /\ st'.side \in {WHITE, BLACK} \ {st.side}
       /\ st'.move_played # None
       /\ LET m == st'.move_played[1]
          IN  /\ m \in gen_legal(st)
              /\ st'.board[m.from_sq] = NONE
              /\ st'.board[m.to_sq] =
                   IF m.type_of.promo # NONE THEN m.type_of.promo
                   ELSE st.board[m.from_sq]]_vars

MakeMoveBookkeepingWitness ==
  /\ Applied
  /\ Len(history) = 2
  /\ st.ply = 2
  /\ history[2].ply = 1
  /\ history[2].side = WHITE
  /\ st.side = BLACK
  /\ Played.type_of.tag = "Promotion"
  /\ history[2].move_played[1].type_of.tag = "EnPassant"

----------------------------------------------------------------------------
(* C17 -- en-passant target lifetime: after make_move(m) the target is set *)
(* exactly when m is a PawnTwoUp, to the square the pawn skipped (behind   *)
(* m's destination as the mover sees it); a target set before the call is  *)
(* cleared.                                                                *)
EnPassantTargetLifetime ==
  Applied =>
    st.ep_square =
      IF Played.type_of = PawnTwoUp
      THEN Some(IF Prev.side = WHITE THEN Played.to_sq - 8 ELSE Played.to_sq + 8)
      ELSE None

EnPassantTargetLifetimeWitness ==
  /\ Applied
  /\ Len(history) = 2
  /\ Prev.ep_square = Some(20)
  /\ st.ep_square = Some(44)
  /\ history[1].ep_square = None

----------------------------------------------------------------------------
(* C18 -- half-move counter: after make_move(m) rule50 is 0 if the moving  *)
(* piece is a pawn or m captures, and otherwise the value before the move  *)
(* plus 1, for every value the 8-bit counter can hold: make_move neither   *)
(* fails nor wraps the counter.                                            *)
HalfMoveCounter ==
  [][(query' # None /\ query'[1].call = "make_move" /\ history' # history)
       => /\ ~query'[1].panicked
          /\ LET m == st'.move_played[1]
             IN  st'.rule50 =
                   IF \/ KindOf(st.board[m.from_sq]) = PAWN
                      \/ m.type_of.tag \in {"Capture", "PromoCapture", "EnPassant"}
                   THEN 0
                   ELSE st.rule50 + 1]_vars

----------------------------------------------------------------------------
(* C19 -- castling rights lost in make_move: a king move removes both      *)
(* rights of the mover; a rook move from the a-file removes the mover's    *)
(* queenside right and from the h-file the kingside right; the capture of  *)
(* a rook on a1, h1, a8 or h8, the opponent's own corner, removes the      *)
(* opponent's right of that wing; no other right is lost.                  *)
Corner(color, file) == (IF color = WHITE THEN 0 ELSE 56) + file
KingSide(color) == IF color = WHITE THEN WK_CASTLE ELSE BK_CASTLE
QueenSide(color) == IF color = WHITE THEN WQ_CASTLE ELSE BQ_CASTLE

RightsLost(s, m) ==
  LET mover == s.side
      opp == IF mover = WHITE THEN BLACK ELSE WHITE
      kind == KindOf(s.board[m.from_sq])
      rook_taken ==
        m.type_of.tag \in {"Capture", "PromoCapture"} /\ KindOf(m.type_of.cap) = ROOK
  IN  (IF kind = KING THEN {KingSide(mover), QueenSide(mover)} ELSE {})
      \cup (IF kind = ROOK /\ m.from_sq % 8 = 0 THEN {QueenSide(mover)} ELSE {})
      \cup (IF kind = ROOK /\ m.from_sq % 8 = 7 THEN {KingSide(mover)} ELSE {})
      \cup (IF rook_taken /\ m.to_sq = Corner(opp, 0) THEN {QueenSide(opp)} ELSE {})
      \cup (IF rook_taken /\ m.to_sq = Corner(opp, 7) THEN {KingSide(opp)} ELSE {})

CastlingLossRules ==
  Applied => st.castling = Prev.castling \ RightsLost(Prev, Played)

CastlingLossRulesWitness ==
  /\ Applied
  /\ Played.type_of = Capture(ROOK + BLACK)
  /\ Played.from_sq = 7
  /\ Played.to_sq = 63
  /\ Prev.castling = {WK_CASTLE, WQ_CASTLE, BK_CASTLE, BQ_CASTLE}
  /\ st.castling = {WQ_CASTLE, BQ_CASTLE}

----------------------------------------------------------------------------
(* C20 -- castling execution: after make_move of a castle gen_legal        *)
(* returned, the king stands two squares from its origin towards the rook, *)
(* the rook of that corner stands on the f-file (kingside) or d-file       *)
(* (queenside) of the same rank, and the king's origin and the corner are  *)
(* empty.                                                                  *)
CastlingExecution ==
  (Applied /\ Played.type_of \in {KingSideCastle, QueenSideCastle}) =>
    LET mover == Prev.side
        from == Played.from_sq
        first == (from \div 8) * 8
        king_side == Played.type_of = KingSideCastle
        corner == IF king_side THEN first + 7 ELSE first
    IN  /\ Played \in gen_legal(Prev)
        /\ Prev.board[from] = KING + mover
        /\ Prev.board[corner] = ROOK + mover
        /\ st.board[IF king_side THEN from + 2 ELSE from - 2] = KING + mover
        /\ st.board[IF king_side THEN first + 5 ELSE first + 3] = ROOK + mover
        /\ st.board[from] = NONE
        /\ st.board[corner] = NONE

CastlingExecutionWitness ==
  /\ Applied
  /\ Played.type_of = QueenSideCastle
  /\ Prev.side = BLACK
  /\ st.board[58] = KING + BLACK
  /\ st.board[59] = ROOK + BLACK

----------------------------------------------------------------------------
(* C21 -- promotion execution: after make_move of a Promotion(p) or        *)
(* PromoCapture(p, c) gen_legal returned, the destination holds p, a piece *)
(* of the mover's colour, the origin is empty, the mover has one pawn      *)
(* fewer and one more piece of p's kind, after a PromoCapture the opponent *)
(* has one piece of c's kind fewer, and no pawn stands on rank 1 or 8.     *)
PromotionExecution ==
  (Applied /\ Played.type_of.tag \in {"Promotion", "PromoCapture"}) =>
    LET mover == Prev.side
        opp == IF mover = WHITE THEN BLACK ELSE WHITE
        p == Played.type_of.promo
        c == Played.type_of.cap
    IN  /\ Played \in gen_legal(Prev)
        /\ p \in {KNIGHT + mover, BISHOP + mover, ROOK + mover, QUEEN + mover}
        /\ st.board[Played.to_sq] = p
        /\ st.board[Played.from_sq] = NONE
        /\ Count(st, PAWN, mover) = Count(Prev, PAWN, mover) - 1
        /\ Count(st, KindOf(p), mover) = Count(Prev, KindOf(p), mover) + 1
        /\ (Played.type_of.tag = "PromoCapture") =>
             /\ Prev.board[Played.to_sq] = c
             /\ Count(st, KindOf(c), opp) = Count(Prev, KindOf(c), opp) - 1
        /\ \A sq \in (0 .. 7) \cup (56 .. 63) : KindOf(st.board[sq]) # PAWN

PromotionExecutionWitness ==
  /\ Applied
  /\ Played.type_of = PromoCapture(KNIGHT + BLACK, ROOK + WHITE)
  /\ st.board[0] = KNIGHT + BLACK
  /\ Count(st, ROOK, WHITE) = 0
  /\ history[2].move_played[1].type_of = EnPassant

----------------------------------------------------------------------------
(* C22 -- en-passant execution: after make_move of an EnPassant move       *)
(* gen_legal returned, the capturing pawn stands on the former en-passant  *)
(* target, its origin is empty, the opponent's pawn on the square behind   *)
(* the destination (as the mover sees it) is gone, and no other square has *)
(* changed.                                                                *)
EnPassantExecution ==
  (Applied /\ Played.type_of = EnPassant) =>
    LET mover == Prev.side
        opp == IF mover = WHITE THEN BLACK ELSE WHITE
        from == Played.from_sq
        to == Played.to_sq
        taken == IF mover = WHITE THEN to - 8 ELSE to + 8
    IN  /\ Played \in gen_legal(Prev)
        /\ Prev.ep_square = Some(to)
        /\ Prev.board[from] = PAWN + mover
        /\ Prev.board[taken] = PAWN + opp
        /\ st.board[to] = PAWN + mover
        /\ st.board[from] = NONE
        /\ st.board[taken] = NONE
        /\ \A sq \in Squares \ {from, to, taken} : st.board[sq] = Prev.board[sq]
        /\ Count(st, PAWN, opp) = Count(Prev, PAWN, opp) - 1

EnPassantExecutionWitness ==
  /\ Applied
  /\ Played.type_of = EnPassant
  /\ Prev.side = BLACK
  /\ Played.from_sq = 26
  /\ Played.to_sq = 19
  /\ st.board[27] = NONE

(* C23 -- king-move shortcut: when the side to move is not in check, for   *)
(* every pseudo-legal king move, castles included, "the destination is not *)
(* attacked by the opponent in the position before the move" answers as    *)
(* the probe "after the move the mover's king is not attacked" does.  The  *)
(* probe is gen_legal's is_legal; independently of is_attacked, it is the  *)
(* attack on the king read from the board array fast_make leaves and, in   *)
(* the positions make_move is called on (outside a probe, where the rights *)
(* are up to date), from the board array make_move leaves.                 *)
KingMoveShortcut ==
  (~panics(st) /\ ~is_check(st)) =>
    \A m \in king_moves(st) :
      LET cheap == ~is_attacked(m.to_sq, st, other(st.side))
          probed_board == fast_make(st, m, m.type_of = EnPassant).st.board
          after == make_move_st(st, m).board
      IN  /\ cheap <=> is_legal(m, st)
          /\ cheap <=> (/\ probed_board[m.to_sq] = KING + st.side
                        /\ ~RefAttacked(probed_board, m.to_sq, other(st.side)))
          /\ probe = None =>
               (cheap <=> (/\ after[m.to_sq] = KING + st.side
                           /\ ~RefAttacked(after, m.to_sq, other(st.side))))

(* after a move, the side to move is not in check and has a king move the  *)
(* shortcut rejects, one it accepts, and a castle                         *)
KingMoveShortcutWitness ==
  /\ Applied
  /\ ~is_check(st)
  /\ \E m \in king_moves(st) : is_attacked(m.to_sq, st, other(st.side))
  /\ \E m \in king_moves(st) :
       m.type_of = Normal /\ ~is_attacked(m.to_sq, st, other(st.side))
  /\ \E m \in king_moves(st) : m.type_of \in {KingSideCastle, QueenSideCastle}

(* C24 -- pin-flag soundness: when the side to move is not in check, every *)
(* pseudo-legal move of a piece other than the king, en-passant captures   *)
(* included, that leaves the mover's king attacked starts from a square    *)
(* might_be_pinned flags.                                                  *)
PinFlagSoundness ==
  (probe = None /\ ~panics(st) /\ ~is_check(st)) =>
    \A m \in pseudo_legal(st) :
      (~has_flag(piece_on(st, m.from_sq), KING) /\ ~is_legal(m, st))
        => might_be_pinned(st, m.from_sq)

(* C25 -- attack tables without wrap-around: for every square the knight   *)
(* table holds exactly the squares of the board at file/rank offset        *)
(* (+-1, +-2) or (+-2, +-1), the king table exactly the other squares at   *)
(* offset at most 1 in file and in rank, and the pawn tables exactly the   *)
(* squares one rank up (White) or down (Black) and one file to the left or *)
(* right; files and ranks are compared, so a square reached across the     *)
(* a/h files or beyond rank 1 or 8 is in no set.                           *)
AttackTablesNoWrap ==
  (query # None /\ query[1].piece # NONE) =>
    LET q == query[1]
        df(t) == (t % 8) - (q.square % 8)
        dr(t) == (t \div 8) - (q.square \div 8)
        expected ==
          {t \in 0 .. 63 :
             CASE q.piece = KNIGHT -> {Abs(df(t)), Abs(dr(t))} = {1, 2}
               [] q.piece = KING -> t # q.square /\ Abs(df(t)) <= 1 /\ Abs(dr(t)) <= 1
               [] q.piece = PAWN ->
                    Abs(df(t)) = 1 /\ dr(t) = (IF q.color = WHITE THEN 1 ELSE -1)}
    IN  q.attacks = expected

(* the knight table for g1: e2, f3 and h3, and not a2 or a3, which the     *)
(* shifts reach across the h-file                                          *)
AttackTablesNoWrapWitness ==
  /\ query # None
  /\ query[1].piece = KNIGHT
  /\ query[1].square = 6
  /\ query[1].attacks = {12, 21, 23}

(* C26 -- legal moves keep the own king safe: after every make_move of a   *)
(* move gen_legal returned, the side that has just moved has its king on   *)
(* the board and that king is not attacked by the side to move.            *)
OwnKingSafe ==
  Applied =>
    /\ \E k \in Squares : st.board[k] = KING + other(st.side)
    /\ \A k \in Squares :
         st.board[k] = KING + other(st.side) => ~RefAttacked(st.board, k, st.side)

(* a move of a piece might_be_pinned flagged, accepted by the probe, from  *)
(* a position where the probe rejects another pseudo-legal move            *)
OwnKingSafeWitness ==
  /\ Applied
  /\ ~is_check(Prev)
  /\ ~has_flag(piece_on(Prev, Played.from_sq), KING)
  /\ might_be_pinned(Prev, Played.from_sq)
  /\ \E m \in pseudo_legal(Prev) : ~is_legal(m, Prev)

(* C27 -- a held castling right implies the pieces are in place: whenever  *)
(* a side holds its kingside (queenside) right, its king is on e1 / e8 and *)
(* a rook of its colour is on the h-file (a-file) corner of its back rank, *)
(* so every castle gen_legal returns finds a rook on the corner it moves   *)
(* the rook from.                                                          *)
HeldRightPiecesInPlace ==
  probe = None =>
    /\ \A color \in {WHITE, BLACK} :
         /\ KingSide(color) \in st.castling =>
              /\ st.board[Corner(color, 4)] = KING + color
              /\ st.board[Corner(color, 7)] = ROOK + color
         /\ QueenSide(color) \in st.castling =>
              /\ st.board[Corner(color, 4)] = KING + color
              /\ st.board[Corner(color, 0)] = ROOK + color
    /\ ~panics(st) =>
         \A m \in gen_legal(st) :
           /\ m.type_of = KingSideCastle => st.board[Corner(st.side, 7)] = ROOK + st.side
           /\ m.type_of = QueenSideCastle => st.board[Corner(st.side, 0)] = ROOK + st.side

(* White's rook has left a1 and Black's rook has left h8: each side holds  *)
(* only the right whose rook is still at home                              *)
HeldRightPiecesInPlaceWitness ==
  /\ Applied
  /\ Len(history) = 2
  /\ st.castling = {WK_CASTLE, BQ_CASTLE}
  /\ st.board[0] # ROOK + WHITE
  /\ st.board[63] # ROOK + BLACK

(* C28 -- rights are lost only by the pieces that carry them: a rook move  *)
(* removes a castling right of the mover only when the rook leaves the     *)
(* mover's own back-rank corner of that wing (a1 / h1 for White, a8 / h8   *)
(* for Black), and a rook that moves from any other square of the a- or    *)
(* h-file leaves the castling rights as they were (but for the right of a  *)
(* rook it captures on the opponent's corner).                             *)
RookRightsOnlyFromCorner ==
  (Applied /\ KindOf(Prev.board[Played.from_sq]) = ROOK) =>
    LET mover == Prev.side
        from == Played.from_sq
        lost == Prev.castling \ st.castling
        taken == RightsLost(Prev, Played) \ {KingSide(mover), QueenSide(mover)}
    IN  /\ KingSide(mover) \in lost => from = Corner(mover, 7)
        /\ QueenSide(mover) \in lost => from = Corner(mover, 0)
        /\ (from % 8 \in {0, 7} /\ from \notin {Corner(mover, 0), Corner(mover, 7)})
             => st.castling = Prev.castling \ taken

(* C29 -- history indexing is safe: for every Position built by from_fen,  *)
(* from_ply, make_move and unmake_move the ply counter equals the length   *)
(* of the history stack, and is_3_rep, whose first read is history[ply -   *)
(* 4], never reads outside the history.                                    *)
HistoryIndexSafe ==
  /\ st.ply = Len(history)
  /\ IF query = None THEN TRUE ELSE ~query[1].panicked

(* C30 -- kings are never captured: in every position of a game each       *)
(* colour has exactly one king on the board, and gen_legal returns no      *)
(* Capture or PromoCapture whose captured piece is a king or a piece of    *)
(* the mover's own colour.                                                 *)
KingsNeverCaptured ==
  probe = None =>
    /\ \A color \in {WHITE, BLACK} :
         Cardinality({t \in Squares : st.board[t] = KING + color}) = 1
    /\ \A m \in gen_legal(st) :
         m.type_of.tag \in {"Capture", "PromoCapture"} =>
           /\ m.type_of.cap = st.board[m.to_sq]
           /\ KindOf(m.type_of.cap) \in {PAWN, KNIGHT, BISHOP, ROOK, QUEEN}
           /\ color_of(m.type_of.cap) = other(st.side)

(* after a capture, the side to move has a capture of its own, and a piece *)
(* of its own colour stands on a square one of its pieces attacks          *)
KingsNeverCapturedWitness ==
  /\ Applied
  /\ Played.type_of.tag \in {"Capture", "PromoCapture"}
  /\ \E m \in gen_legal(st) : m.type_of.tag = "Capture"
  /\ \E t \in Squares : \E u \in Squares :
       /\ color_of(st.board[t]) = st.side
       /\ color_of(st.board[u]) = st.side
       /\ RefAttacks(st.board, t, u)

====
